---- MODULE Spec2Model ----
(***************************************************************************)
(* A model of the arXiv reference extractor (ads_ref_extract).             *)
(*                                                                         *)
(*   SpecSession  CompatExtractor.process / process_one /                  *)
(*                _process_one_inner (compat.py)                           *)
(*                                                                         *)
(* Text is modelled as sequences of tokens: a token is a single character, *)
(* a TeX control word (a backslash followed by letters) or a word that     *)
(* the code never looks into.  Python's None is the string "None".         *)
(***************************************************************************)
EXTENDS Integers, Sequences, FiniteSets, TLC

None == "None"

\* Number of input records read by one run of CompatExtractor.process.
MaxInputs == 2

\* Bound on the physical lines of a file handed to munge_refs.
MaxLines == 3

\* Bound on the munge_refs runs made on one file.
MaxMunges == 2

\* Bounds on the delimiter pairs of a text handed to _extract_references and
\* on the characters its interiors hold together.
MaxPairs == 2
MaxInterior == 3
MaxText == 4         \* characters of a text handed to _split_on_delimited_prefix

\* Bound on the lines munge_refs has printed when it is interrupted.
MaxWritten == 3

\* Number of item stems in the two runs compare_outcomes is given.
MaxStems == 2

\* Number of reference strings handed to _resolve_references.
MaxRefstrings == 18

VARIABLES
    \* ---- CompatExtractor session (compat.py) ----
    input_stream,      \* the records not yet read by process()
    output_stream,     \* the lines printed by process()
    n_inputs,          \* process(): local counter
    n_failures,        \* process(): local counter
    force, no_pdf, no_tex, skip_refs, pdf_backend,   \* session settings
    ft_exists,         \* extensions for which <fulltext_base>/<stem>.<ext> exists
    tr_state,          \* state of the two target reference files of the item
    _current_item,     \* CompatExtractor._current_item
    _failure_reason,   \* CompatExtractor._failure_reason
    last_call,         \* what the last process_one call did (its locals and end event)
    spc,               \* position of process(): "loop" or "done"
    \* ---- tex.extract_references on one submission (tex.py) ----
    submission,        \* the fulltext source: its extension and what it holds
    give_up_log,       \* the reasons item_give_up was called with, in order
    t_pc,              \* position of _extract_inner
    cwd_files,         \* the working directory: file name -> lines
    sources,           \* TexSources.items
    non_main_files,    \* the names collected from \input directives
    t_idx,             \* TexSources.extract_refs: index of the next candidate
    typeset_log,       \* the candidates pdflatex was run on and what came of it
    tried_log,         \* the candidates tried as main file and what each recovered
    refs,              \* _extract_inner: refs
    t_result,          \* what extract_references returned (or that it raised)
    tr_file,           \* the target reference file tr_path
    tr_file0,          \* tr_path as it was when extract_references was called
    munge_log,         \* results of the munge_refs calls on the candidate files
    workdir,           \* extract_references: its workdir argument
    os_cwd,            \* the working directory of the process
    tmpdir,            \* the TemporaryDirectory of extract_references
    call_log,          \* calls of helper functions made so far, with their results
    \* ---- classic_analytics.compare_outcomes ----
    A_results,         \* item stem -> <<extension, target path>> of run A
    B_results,         \* item stem -> <<extension, target path>> of run B
    ignore_pdfonly,    \* the ignore_pdfonly argument
    stems,             \* the stems the loop has not visited yet
    failures, regressions, fixes,      \* the sets filled by the loop
    n_preserves, n_ignored_pdfs,       \* the counters of the loop
    c_pc,              \* position of compare_outcomes
    \* ---- resolver_cache._resolve_references ----
    refstrings,        \* how many reference strings the iterable still holds
    batch,             \* len(batch)
    n_resolved,        \* n_resolved
    _attempt,          \* resolve_batch: requests sent for the batch in hand
    requests_log,      \* every request sent: the batch size and the status
    r_pc,              \* position of the generator
    r_result           \* the exception that ended the generator, if one did

sessVars == <<input_stream, output_stream, n_inputs, n_failures, force, no_pdf,
              no_tex, skip_refs, pdf_backend, ft_exists, tr_state,
              _current_item, _failure_reason, last_call, spc>>

dirVars == <<workdir, os_cwd, tmpdir>>

texVars == <<submission, give_up_log, t_pc, cwd_files, sources, non_main_files,
             t_idx, typeset_log, tried_log, refs, t_result, tr_file, tr_file0,
             munge_log, dirVars, call_log>>

cmpVars == <<A_results, B_results, ignore_pdfonly, stems, failures, regressions,
             fixes, n_preserves, n_ignored_pdfs, c_pc>>

resolverVars == <<refstrings, batch, n_resolved, _attempt, requests_log, r_pc,
                  r_result>>

toolVars == <<cmpVars, resolverVars>>

vars == <<sessVars, texVars, toolVars>>

\* compare_outcomes is not part of the run.
CompareIdle ==
    /\ A_results = <<>>
    /\ B_results = <<>>
    /\ ignore_pdfonly = FALSE
    /\ stems = {}
    /\ failures = {}
    /\ regressions = {}
    /\ fixes = {}
    /\ n_preserves = 0
    /\ n_ignored_pdfs = 0
    /\ c_pc = "idle"

\* The resolver is not part of the run.
ResolverIdle ==
    /\ refstrings = 0
    /\ batch = 0
    /\ n_resolved = 0
    /\ _attempt = 0
    /\ requests_log = <<>>
    /\ r_pc = "idle"
    /\ r_result = None

ToolsIdle == CompareIdle /\ ResolverIdle

(***************************************************************************)
(* CompatExtractor                                                         *)
(***************************************************************************)

PdfExts == <<"pdf", "pdf.gz">>
TexExts == <<"tar.gz", "tar", "tex.gz", "tex", "gz">>

Range(s) == {s[i] : i \in DOMAIN s}

\* The item every record of the modelled run names.
ItemStem == "arXiv/2111/01106"

\* The fulltext versions of the item that may be on disk.
FulltextSets == {{}, {"pdf"}, {"tex"}, {"pdf", "tar.gz"}, {"pdf.gz", "tar.gz"}, {"gz"}}

\* A target reference file is absent, older than the fulltext source, or
\* not older than it.
TrStates == {"absent", "older", "current"}

\* What the external PDF extractor does when it is run.
PdfEnv == {"created", "not_created", "helper_failed", "grobid_error", "raise"}

\* What tex.extract_references returns (or that it raises).
TexEnv == {"refs", "fail", "withdrawn", "raise"}

tr_path_pdf == ItemStem \o "_pipeline_grobid.raw"
tr_path_tex == ItemStem \o "_pipeline_tex.raw"

\* item_give_up: only the first reason recorded for an item counts.
item_give_up(cur, reason) == IF cur # None THEN cur ELSE reason

\* What a call of _process_one_inner leaves: its return value, the failure
\* reason of the session, the target files, whether it raised, and whether it
\* ran an extractor (tex.extract_references, the PDF helper or grobid).
InnerResult(ret, reason, tr, raised, ran) ==
    [ret |-> ret, reason |-> reason, tr |-> tr, raised |-> raised, ran |-> ran]

\* The TeX branch of _process_one_inner: the call of tex.extract_references
\* and the dispatch on its outcome.
_process_one_inner_tex(reason, tr, env) ==
    CASE env = "refs" ->
            \* a nonnegative count: the target was written unless skip_refs,
            \* in which case extract_references gave up with "skip-refs"
            InnerResult(tr_path_tex,
                        IF skip_refs THEN item_give_up(reason, "skip-refs") ELSE reason,
                        IF skip_refs THEN tr ELSE [tr EXCEPT !.tex = "current"],
                        FALSE, TRUE)
      [] env = "fail" ->
            InnerResult(None, item_give_up(reason, "no-main-file-worked"), tr, FALSE,
                        TRUE)
      [] env = "withdrawn" ->
            InnerResult("withdrawn", reason, tr, FALSE, TRUE)
      [] OTHER ->
            \* raised inside the try block: logged, None
            InnerResult(None, reason, tr, FALSE, TRUE)

\* The PDF branch of _process_one_inner.
_process_one_inner_pdf(reason, tr, env) ==
    LET Exists(t) == t.pdf # "absent"
        After(t, rsn) ==
            IF Exists(t) THEN InnerResult(tr_path_pdf, rsn, t, FALSE, TRUE)
            ELSE InnerResult(None, rsn, t, FALSE, TRUE)
        created == [tr EXCEPT !.pdf = "current"]
    IN CASE pdf_backend = "perl" ->
              IF env = "created" THEN After(created, reason)
              ELSE IF env \in {"helper_failed", "raise"}
                   THEN InnerResult(None, reason, tr, FALSE, TRUE)
              ELSE After(tr, reason)
         [] pdf_backend = "grobid" ->
              IF env = "created" THEN After(created, reason)
              ELSE IF env = "raise" THEN InnerResult(None, reason, tr, TRUE, TRUE)
              ELSE IF env = "grobid_error"
                   THEN After(tr, item_give_up(reason, "grobid-error"))
              ELSE After(tr, reason)
         [] OTHER -> InnerResult(None, reason, tr, FALSE, FALSE)

\* The same, but the force setting is not looked at.
_process_one_inner_unforced(reason, tr, bibcode, item_ext, is_pdf, env) ==
    LET kind == IF is_pdf THEN "pdf" ELSE "tex" IN
    IF item_ext \notin ft_exists
    THEN InnerResult(None, item_give_up(reason, "missing-fulltext"), tr, FALSE, FALSE)
    ELSE IF item_ext \notin Range(TexExts) \cup Range(PdfExts)
    THEN InnerResult(None, item_give_up(reason, "unexpected-extension"), tr, FALSE,
                     FALSE)
    ELSE IF tr[kind] = "current"
    THEN InnerResult(IF is_pdf THEN tr_path_pdf ELSE tr_path_tex, reason, tr, FALSE,
                     FALSE)
    ELSE IF bibcode = None
    THEN InnerResult(None, item_give_up(reason, "bibcode-unimplemented"), tr, FALSE,
                     FALSE)
    ELSE IF ~is_pdf /\ ~no_tex THEN _process_one_inner_tex(reason, tr, env)
    ELSE IF is_pdf /\ ~no_pdf THEN _process_one_inner_pdf(reason, tr, env)
    ELSE InnerResult(None, reason, tr, FALSE, FALSE)

\* CompatExtractor._process_one_inner, called with the failure reason and the
\* target files as they are, under outcome env of the extractor it may run.
_process_one_inner(reason, tr, bibcode, item_ext, is_pdf, env) ==
    LET kind == IF is_pdf THEN "pdf" ELSE "tex" IN
    IF item_ext \notin ft_exists
    THEN InnerResult(None, item_give_up(reason, "missing-fulltext"), tr, FALSE, FALSE)
    ELSE IF item_ext \notin Range(TexExts) \cup Range(PdfExts)
    THEN InnerResult(None, item_give_up(reason, "unexpected-extension"), tr, FALSE,
                     FALSE)
    ELSE IF tr[kind] = "current" /\ ~force
    THEN InnerResult(IF is_pdf THEN tr_path_pdf ELSE tr_path_tex, reason, tr, FALSE,
                     FALSE)
    ELSE IF bibcode = None
    THEN InnerResult(None, item_give_up(reason, "bibcode-unimplemented"), tr, FALSE,
                     FALSE)
    ELSE IF ~is_pdf /\ ~no_tex THEN _process_one_inner_tex(reason, tr, env)
    ELSE IF is_pdf /\ ~no_pdf THEN _process_one_inner_pdf(reason, tr, env)
    ELSE InnerResult(None, reason, tr, FALSE, FALSE)

\* The names bound in the scope of process_one when its try block ends.
process_one_names ==
    {"self", "preprint_path", "bibcode", "item_stem", "item_ext", "item_id",
     "exception", "pdf_exists", "tex_exists", "ext", "pdf_path", "tex_ext",
     "tex_path", "pdf_result", "tex_result", "outcome", "tr_path"}

\* Evaluating a name: it raises NameError unless the name is bound.
NameError(name) == name \notin process_one_names

\* The first extension of exts (in order) for which the fulltext exists.
RECURSIVE first_existing(_)
first_existing(exts) ==
    IF exts = <<>> THEN None
    ELSE IF Head(exts) \in ft_exists THEN Head(exts)
    ELSE first_existing(Tail(exts))

\* process_one from "if self._failure_reason is None" on: the end event with
\* the failure reason as process_one left it.  given_up is the reason that
\* item_give_up recorded while the item was processed.
EndEvent(ret, outcome, exception, reason, given_up, tr, pdf_result, tex_result) ==
    [ret |-> ret, outcome |-> outcome, exception |-> exception,
     failwhy |-> IF reason = None THEN "uncaptured" ELSE reason,
     uncaptured |-> reason = None, given_up |-> given_up,
     tr |-> tr, pdf_result |-> pdf_result, tex_result |-> tex_result]

process_one(bibcode, envp, envt) ==
    LET pdf_exists == first_existing(PdfExts) # None
        tex_ext == first_existing(TexExts)
        tex_exists == tex_ext # None
        reason0 == None
        p == IF pdf_exists /\ ~no_pdf
             THEN _process_one_inner(reason0, tr_state, bibcode, "pdf", TRUE, envp)
             ELSE InnerResult(None, reason0, tr_state, FALSE, FALSE)
        t == IF p.raised THEN p
             ELSE IF tex_exists /\ ~no_tex
             THEN _process_one_inner(p.reason, p.tr, bibcode, tex_ext, FALSE, envt)
             ELSE InnerResult(None, p.reason, p.tr, FALSE, FALSE)
        tex_result == IF p.raised THEN None ELSE t.ret
        Raised == EndEvent(None, "fail", TRUE, "unhandled-exception", t.reason, t.tr,
                           p.ret, tex_result)
    IN
    IF ~pdf_exists /\ ~tex_exists
    THEN \* the return inside the try block skips the end event
         [ret |-> None, outcome |-> None, exception |-> FALSE,
          failwhy |-> "missing-fulltext", uncaptured |-> FALSE,
          given_up |-> "missing-fulltext", tr |-> tr_state,
          pdf_result |-> None, tex_result |-> None]
    ELSE IF p.raised THEN Raised
    ELSE IF p.ret = "withdrawn" \/ t.ret = "withdrawn"
    THEN EndEvent("withdrawn", "withdrawn", FALSE, t.reason, t.reason, t.tr,
                  p.ret, t.ret)
    ELSE IF p.ret = None /\ t.ret = None
    THEN EndEvent(None, "fail", FALSE, t.reason, t.reason, t.tr, p.ret, t.ret)
    ELSE IF NameError(IF p.ret # None THEN "tr_path_pdf" ELSE "tr_path_tex")
    THEN Raised
    ELSE EndEvent(IF p.ret # None THEN tr_path_pdf ELSE tr_path_tex,
                  "success", FALSE, "N/A", t.reason, t.tr, p.ret, t.ret)

\* The TeX pipeline is not part of the run.
TexIdle ==
    /\ submission = <<>>
    /\ give_up_log = <<>>
    /\ t_pc = "idle"
    /\ cwd_files = <<>>
    /\ sources = <<>>
    /\ non_main_files = {}
    /\ t_idx = 0
    /\ typeset_log = <<>>
    /\ tried_log = <<>>
    /\ refs = <<>>
    /\ t_result = [kind |-> "pending", n |-> 0, s |-> ""]
    /\ tr_file = [exists |-> FALSE, lines |-> <<>>]
    /\ tr_file0 = [exists |-> FALSE, lines |-> <<>>]
    /\ munge_log = <<>>
    /\ workdir = None
    /\ os_cwd = "orig_dir"
    /\ tmpdir = "none"
    /\ call_log = <<>>
    /\ ToolsIdle

Records == {[blank |-> TRUE, bibcode |-> None],
            [blank |-> FALSE, bibcode |-> None],
            [blank |-> FALSE, bibcode |-> "2021arXiv211101106G"]}

SeqsUpTo(S, n) == UNION {[1..k -> S] : k \in 0..n}

NoCall == [ret |-> None, outcome |-> None, exception |-> FALSE, failwhy |-> None,
           uncaptured |-> FALSE, given_up |-> None,
           tr |-> [pdf |-> "absent", tex |-> "absent"],
           pdf_result |-> None, tex_result |-> None]

InitSession ==
    /\ input_stream \in SeqsUpTo(Records, MaxInputs)
    /\ output_stream = <<>>
    /\ n_inputs = 0
    /\ n_failures = 0
    /\ force \in BOOLEAN
    /\ no_pdf \in BOOLEAN
    /\ no_tex \in BOOLEAN
    /\ skip_refs \in BOOLEAN
    /\ pdf_backend \in {"perl", "grobid", "other"}
    /\ ft_exists \in FulltextSets
    /\ tr_state \in [pdf : TrStates, tex : TrStates]
    /\ _current_item = "???"
    /\ _failure_reason = None
    /\ last_call = NoCall
    /\ spc = "loop"
    /\ TexIdle

\* process(): a blank input line is skipped.
IgnoreBlankLine ==
    /\ spc = "loop"
    /\ input_stream # <<>>
    /\ Head(input_stream).blank
    /\ input_stream' = Tail(input_stream)
    /\ UNCHANGED <<output_stream, n_inputs, n_failures, force, no_pdf, no_tex,
                   skip_refs, pdf_backend, ft_exists, tr_state, _current_item,
                   _failure_reason, last_call, spc, texVars, toolVars>>

\* process(): one record is handed to process_one and its line is printed.
ProcessItem ==
    /\ spc = "loop"
    /\ input_stream # <<>>
    /\ ~Head(input_stream).blank
    /\ \E envp \in PdfEnv, envt \in TexEnv :
         LET r == process_one(Head(input_stream).bibcode, envp, envt) IN
         /\ last_call' = r
         /\ tr_state' = r.tr
         /\ n_inputs' = n_inputs + 1
         /\ IF r.ret = "withdrawn"
            THEN /\ output_stream' = Append(output_stream, <<ItemStem>>)
                 /\ n_failures' = n_failures
            ELSE IF r.ret = None
            THEN /\ output_stream' = Append(output_stream, <<ItemStem>>)
                 /\ n_failures' = n_failures + 1
            ELSE /\ output_stream' = Append(output_stream, <<ItemStem, r.ret>>)
                 /\ n_failures' = n_failures
         \* process_one leaves the label and the reason in their reset state,
         \* except on the early return for a missing fulltext
         /\ _current_item' = IF r.outcome = None THEN ItemStem ELSE "???"
         /\ _failure_reason' = IF r.outcome = None THEN r.failwhy ELSE None
    /\ input_stream' = Tail(input_stream)
    /\ UNCHANGED <<force, no_pdf, no_tex, skip_refs, pdf_backend, ft_exists, spc,
                   texVars, toolVars>>

\* process(): the input is exhausted, the summary is logged.
FinishProcess ==
    /\ spc = "loop"
    /\ input_stream = <<>>
    /\ spc' = "done"
    /\ UNCHANGED <<input_stream, output_stream, n_inputs, n_failures, force,
                   no_pdf, no_tex, skip_refs, pdf_backend, ft_exists, tr_state,
                   _current_item, _failure_reason, last_call, texVars, toolVars>>

NextSession == IgnoreBlankLine \/ ProcessItem \/ FinishProcess

SpecSession == InitSession /\ [][NextSession]_vars

(***************************************************************************)
(* Text: tokens, lines and the regular expressions of tex.py               *)
(***************************************************************************)

Min(S) == CHOOSE x \in S : \A y \in S : x <= y

Max(S) == CHOOSE x \in S : \A y \in S : x >= y

\* str.isspace() and the regex class \s
IsSpace(c) == c \in {" ", "\t", "\n", "\f"}

_HEX_CHARS == {"0", "1", "2", "3", "4", "5", "6", "7", "8", "9",
               "a", "b", "c", "d", "e", "f", "A", "B", "C", "D", "E", "F"}

\* Tokens that start with a word character (the regex class \w).
WordTokens == _HEX_CHARS \cup
    {"S", "J", "m", "i", "t", "h", "r", "x", "q",
     "thebibliography", "chapthebibliography", "references", "document",
     "abstract", "introduction", "itemize", "other", "main", "tex", "bbl",
     "txt", "sty", "eps", "tmp", "work", "aa", "rnaas", "mnras_template",
     "paper", "auto-ignore"}

\* re.IGNORECASE: the lower-case form of a control word.
Lower(tok) ==
    CASE tok = "\\BIBITEM" -> "\\bibitem"
      [] tok = "\\END" -> "\\end"
      [] OTHER -> tok

BibEnvs == {"chapthebibliography", "thebibliography", "references"}

\* The first index >= i of line that holds no whitespace (Len + 1 if none).
skip_spaces(line, i) ==
    IF i > Len(line) THEN i
    ELSE Min({j \in i..Len(line) : ~IsSpace(line[j])} \cup {Len(line) + 1})

\* \{(chapthebibliography|thebibliography|references)\} at index i
BibEnvAt(line, i) ==
    /\ i + 2 <= Len(line)
    /\ line[i] = "{"
    /\ line[i + 1] \in BibEnvs
    /\ line[i + 2] = "}"

\* _START_REFS_REGEX.search(line)
_START_REFS_REGEX(line) ==
    \E i \in 1..Len(line) :
        /\ Lower(line[i]) = "\\begin"
        /\ BibEnvAt(line, skip_spaces(line, i + 1))

\* _END_REFS_REGEX.search(line): anchored at the start of the line
_END_REFS_REGEX(line) ==
    LET i == skip_spaces(line, 1) IN
    /\ i <= Len(line)
    /\ Lower(line[i]) = "\\end"
    /\ BibEnvAt(line, skip_spaces(line, i + 1))

\* _FORCED_NEWLINE_REGEX matches at index i of line
ForcedAt(line, i) ==
    \/ Lower(line[i]) \in {"\\bibitem", "\\reference"}
    \/ /\ Lower(line[i]) = "\\end"
       /\ i + 1 <= Len(line)
       /\ line[i + 1] = "{"

\* _FORCED_NEWLINE_REGEX.search(line[1:]): the index in line of the first
\* match after the first character, 0 if there is none.  A control word at
\* the very start of the line loses its backslash to the slice and so does
\* not match.
_FORCED_NEWLINE_REGEX(line) ==
    LET I == {i \in 2..Len(line) : ForcedAt(line, i)} IN
    IF I = {} THEN 0 ELSE Min(I)

\* The alternatives of the start_item regex besides the file's own macro.
ItemMacros == {"\\bibitem", "\\reference", "\\rn", "\\rf", "\\rfprep", "\\item"}

\* start_item.match(line): the index of the macro, 0 if there is no match.
start_item(line, bibitem) ==
    LET i == skip_spaces(line, 1) IN
    IF /\ i <= Len(line)
       /\ Lower(line[i]) \in ItemMacros \cup {Lower(bibitem)}
       /\ (i = Len(line) \/ line[i + 1] \notin WordTokens)
    THEN i ELSE 0

\* Python's None where a tuple or a list is expected.
NoneT == <<>>

\* _split_on_delimited_prefix: <<left, right>>, or None when the loop ends
\* without reaching a return statement.
RECURSIVE split_walk(_, _, _, _, _)
split_walk(text, open, close, idx, depth) ==
    IF idx > Len(text) THEN NoneT
    ELSE LET cur_char == text[idx] IN
         IF depth > 0
         THEN LET d == IF cur_char = open THEN depth + 1
                       ELSE IF cur_char = close THEN depth - 1
                       ELSE depth
              IN IF d = 0
                 THEN <<SubSeq(text, 1, idx), SubSeq(text, idx + 1, Len(text))>>
                 ELSE split_walk(text, open, close, idx + 1, d)
         ELSE IF IsSpace(cur_char) THEN split_walk(text, open, close, idx + 1, 0)
         ELSE IF cur_char = open THEN split_walk(text, open, close, idx + 1, 1)
         ELSE <<<<>>, text>>

_split_on_delimited_prefix(text, open, close) == split_walk(text, open, close, 1, 0)

\* The openers of the four _EMPH_REGEXES, in the order they are applied.
EmphOpeners == << <<"{", "\\em", " ">>, <<"{", "\\it", " ">>,
                  <<"\\emph", "{">>, <<"\\textit", "{">> >>

StartsWithAt(text, i, pre) ==
    /\ i + Len(pre) - 1 <= Len(text)
    /\ SubSeq(text, i, i + Len(pre) - 1) = pre

\* regex.sub(r'"\1"', text) for the regex  opener (.*?) \}  with the
\* search resumed at index i: the leftmost opener from i on that a "}"
\* follows is replaced together with its body and that "}", and the search
\* goes on behind the replacement.
RECURSIVE emph_sub(_, _, _)
RECURSIVE emph_quote(_, _, _)
RECURSIVE emph_splice(_, _, _, _)
emph_sub(text, opener, i) ==
    LET I == {k \in i..Len(text) :
                 /\ StartsWithAt(text, k, opener)
                 /\ \E j \in (k + Len(opener))..Len(text) : text[j] = "}"}
    IN IF I = {} THEN text ELSE emph_quote(text, opener, Min(I))

\* One replacement of emph_sub, for the opener found at index k
emph_quote(text, opener, k) ==
    emph_splice(text, opener, k,
                Min({j \in (k + Len(opener))..Len(text) : text[j] = "}"}))

\* ... whose body ends before index j
emph_splice(text, opener, k, j) ==
    emph_sub(SubSeq(text, 1, k - 1) \o <<"\"">>
                 \o SubSeq(text, k + Len(opener), j - 1) \o <<"\"">>
                 \o SubSeq(text, j + 1, Len(text)),
             opener, j - Len(opener) + 2)

RECURSIVE emph_all(_, _)
emph_all(text, k) ==
    IF k > Len(EmphOpeners) THEN text
    ELSE emph_all(emph_sub(text, EmphOpeners[k], 1), k + 1)

\* The physical lines of _REF_EXTRA_OPENING after its leading line break;
\* the last one is the opening marker.
OpenMarker == <<"{", "\\textless", "}", "r", "{", "\\textgreater", "}">>
_REF_EXTRA_OPENING ==
    << <<"\\newpage">>,
       <<"\\providecommand", "{", "\\onecolumn", "}", "{", "\\relax", "}">>,
       <<"\\onecolumn">>,
       <<"\\section", "*", "{", "}">>,
       <<"\\sloppy">>,
       <<"\\raggedright">>,
       <<"\\hyphenpenalty", "=", "10000">>,
       <<"\\exhyphenpenalty", "=", "10000">>,
       <<"\\def", "\\UrlBreaks", "{", "}">>,
       <<"\\def", "\\UrlBigBreaks", "{", "}">>,
       <<"\\def", "\\UrlNoBreaks", "{", "\\do", "\\:", "\\do", "\\-", "}">>,
       OpenMarker >>
_REF_EXTRA_CLOSING == <<"{", "\\textless", "}", "/", "r", "{", "\\textgreater", "}">>

\* TexSourceItem.tag_ref: the lines it prints, or None when unpacking the
\* result of _split_on_delimited_prefix raises TypeError.
tag_ref(tag, text0, ref_type, bibitem) ==
    LET text1 == emph_all(text0, 1)
        Emit(t, body) ==
            << t \o <<" ">> >>
            \o SubSeq(_REF_EXTRA_OPENING, 1, Len(_REF_EXTRA_OPENING) - 1)
            \o << OpenMarker \o <<" ">> \o body \o <<" ">> \o _REF_EXTRA_CLOSING >>
    IN
    IF ref_type = "bibitem"
    THEN LET s1 == _split_on_delimited_prefix(text1, "[", "]") IN
         IF s1 = NoneT THEN NoneT
         ELSE LET s2 == _split_on_delimited_prefix(s1[2], "{", "}") IN
              IF s2 = NoneT THEN NoneT
              ELSE Emit(tag \o s1[1] \o s2[1], s2[2])
    ELSE IF ref_type = "reference"
    THEN LET s1 == _split_on_delimited_prefix(text1, "{", "}") IN
         IF s1 = NoneT THEN NoneT
         ELSE Emit(tag \o s1[1], s1[2])
    ELSE Emit(tag, text1)

\* The index of the first "%" of line, 0 if there is none: line.index("%")
PercentIndex(line) ==
    LET P == {i \in 1..Len(line) : line[i] = "%"} IN
    IF P = {} THEN 0 ELSE Min(P)

\* The "%" at cidx is followed by two hex digits (a percent-encoding).
HexEncodedAt(line, cidx) ==
    /\ cidx + 2 <= Len(line)
    /\ line[cidx + 1] \in _HEX_CHARS
    /\ line[cidx + 2] \in _HEX_CHARS

EndsWith(s, suffix) ==
    /\ Len(s) >= Len(suffix)
    /\ SubSeq(s, Len(s) - Len(suffix) + 1, Len(s)) = suffix

MungeState0 ==
    [out |-> <<>>, line_in_progress |-> <<>>, tag |-> None, cur_ref |-> <<>>,
     ref_type |-> "", n_tagged |-> 0, raised |-> FALSE, broke |-> FALSE,
     rest |-> <<>>]

\* "if cur_ref: self.tag_ref(...); n_tagged += 1"
munge_flush(st, bibitem) ==
    IF st.cur_ref = <<>> THEN st
    ELSE LET t == tag_ref(<<st.tag>>, st.cur_ref, st.ref_type, bibitem) IN
         IF t = NoneT THEN [st EXCEPT !.raised = TRUE]
         ELSE [st EXCEPT !.out = @ \o t, !.n_tagged = @ + 1]

\* One iteration of the second loop of TexSourceItem.munge_refs, on the
\* physical line raw.  broke says that the iteration ended in "break".
munge_line(st, raw, bibitem) ==
    LET line0 == st.line_in_progress \o raw
        s0 == [st EXCEPT !.line_in_progress = <<>>]
        cidx == PercentIndex(line0)
        comment == cidx > 0 /\ ~HexEncodedAt(line0, cidx)
    IN
    IF comment /\ cidx = 1 THEN s0
    ELSE IF comment /\ line0[cidx - 1] # "\\"
    THEN [s0 EXCEPT !.line_in_progress = SubSeq(line0, 1, cidx - 1) \o <<" ">>]
    ELSE
    LET f == _FORCED_NEWLINE_REGEX(line0)
        line == IF f = 0 THEN line0 ELSE SubSeq(line0, 1, f - 1)
        s1 == IF f = 0 THEN s0
              ELSE [s0 EXCEPT !.line_in_progress = SubSeq(line0, f, Len(line0))]
    IN
    IF _END_REFS_REGEX(line)
    THEN LET s2 == munge_flush(s1, bibitem) IN
         IF s2.raised THEN s2
         ELSE [s2 EXCEPT !.cur_ref = <<>>, !.out = @ \o <<line>>, !.broke = TRUE]
    ELSE
    LET m == start_item(line, bibitem) IN
    IF m # 0
    THEN LET s2 == IF s1.tag # None THEN s1
                   ELSE [s1 EXCEPT !.tag = line[m],
                                   !.ref_type =
                                       IF line[m] \in {"\\bibitem", bibitem} THEN "bibitem"
                                       ELSE IF line[m] \in {"\\reference", "\\ref"}
                                            THEN "reference"
                                       ELSE ""]
             s3 == munge_flush(s2, bibitem)
         IN [s3 EXCEPT !.cur_ref = SubSeq(line, m + 1, Len(line))]
    ELSE IF s1.tag # None
    THEN [s1 EXCEPT !.cur_ref = @ \o line]
    ELSE [s1 EXCEPT !.out = @ \o <<line>>]

\* The second loop of TexSourceItem.munge_refs: one iteration per physical
\* line of the reference section, until the lines run out, an iteration
\* raises or one breaks.  rest is what the loop leaves unread.
RECURSIVE munge_loop(_, _, _)
munge_loop(st, lines, bibitem) ==
    IF lines = <<>> \/ st.raised \/ st.broke THEN [st EXCEPT !.rest = lines]
    ELSE munge_loop(munge_line(st, Head(lines), bibitem), Tail(lines), bibitem)

\* The first loop of munge_refs: copy up to and including the first line
\* that opens a bibliography environment.  <<copied, remaining>>
munge_preamble(lines) ==
    LET B == {k \in DOMAIN lines : _START_REFS_REGEX(lines[k])} IN
    IF B = {} THEN <<lines, <<>>>>
    ELSE <<SubSeq(lines, 1, Min(B)), SubSeq(lines, Min(B) + 1, Len(lines))>>

\* munge_refs up to its second loop: <<copied, remaining>>; .bib and .bbl
\* files are munged from their first line
munge_start(path, in_lines) ==
    IF EndsWith(path, <<".", "bib">>) \/ EndsWith(path, <<".", "bbl">>)
    THEN <<<<>>, in_lines>>
    ELSE munge_preamble(in_lines)

\* The second loop of munge_refs run on what the first left
munge_section(pre, bibitem) ==
    munge_loop([MungeState0 EXCEPT !.out = pre[1]], pre[2], bibitem)

\* "if cur_ref: ..." after the loop
munge_last_ref(st, bibitem) == IF st.raised THEN st ELSE munge_flush(st, bibitem)

\* "if line_in_progress: print(line_in_progress, file=f_out)"
munge_leftover(st) ==
    IF st.raised \/ st.line_in_progress = <<>> THEN st
    ELSE [st EXCEPT !.out = @ \o <<st.line_in_progress>>]

\* The lines the loops left unread are copied, the file is renamed and
\* n_tagged is returned
munge_return(st) ==
    [raised |-> st.raised,
     n_tagged |-> st.n_tagged,
     out |-> IF st.raised THEN st.out ELSE st.out \o st.rest]

\* TexSourceItem.munge_refs on an item that is not ignored: the tagged-entry
\* count and the rewritten file, or raised with what the temporary file held.
munge_refs(path, in_lines, bibitem) ==
    munge_return(munge_leftover(munge_last_ref(
        munge_section(munge_start(path, in_lines), bibitem), bibitem)))

(***************************************************************************)
(* Reference recovery (tex.py: _extract_references, _postprocess_one_ref)  *)
(* Recovered text is a sequence of characters.                             *)
(***************************************************************************)

\* The closing part  <\s*/r\s*>  of _FIND_REF_REGEX matched at index j:
\* the index of its last character, 0 if it does not match there.
CloserEndAt(text, j) ==
    IF j > Len(text) \/ text[j] # "<" THEN 0
    ELSE LET a == skip_spaces(text, j + 1) IN
         IF a + 1 > Len(text) \/ text[a] # "/" \/ text[a + 1] # "r" THEN 0
         ELSE LET b == skip_spaces(text, a + 2) IN
              IF b > Len(text) \/ text[b] # ">" THEN 0 ELSE b

\* _FIND_REF_REGEX.search(text): <<m[1], text[m.end():]>>, or None.  The
\* match starts at the leftmost "<r>" that a closing part follows, and the
\* lazy group stops at the first closing part after it.
_FIND_REF_REGEX(text) ==
    LET Starts == {i \in 1..Len(text) :
                      /\ StartsWithAt(text, i, <<"<", "r", ">">>)
                      /\ \E j \in (i + 3)..Len(text) : CloserEndAt(text, j) # 0}
    IN IF Starts = {} THEN NoneT
       ELSE LET i == Min(Starts)
                j == Min({k \in (i + 3)..Len(text) : CloserEndAt(text, k) # 0})
            IN <<SubSeq(text, i + 3, j - 1),
                 SubSeq(text, CloserEndAt(text, j) + 1, Len(text))>>

\* A ref.replace("-\n", "") that replaces nothing
keep_hyphen_newline(ref) == ref

\* ref.replace("-\n", ""): what precedes the leftmost "-\n" is kept, the
\* two characters are dropped and the replacement goes on behind them
RECURSIVE remove_hyphen_newline(_)
remove_hyphen_newline(ref) ==
    LET H == {k \in 1..(Len(ref) - 1) : ref[k] = "-" /\ ref[k + 1] = "\n"} IN
    IF H = {} THEN ref
    ELSE SubSeq(ref, 1, Min(H) - 1)
         \o remove_hyphen_newline(SubSeq(ref, Min(H) + 2, Len(ref)))

\* ref.split(): the maximal runs of characters that are no whitespace
RECURSIVE split(_)
split(ref) ==
    LET a == skip_spaces(ref, 1)
        b == Min({k \in a..Len(ref) : IsSpace(ref[k])} \cup {Len(ref) + 1})
    IN IF a > Len(ref) THEN <<>>
       ELSE <<SubSeq(ref, a, b - 1)>> \o split(SubSeq(ref, b, Len(ref)))

\* " ".join(words)
RECURSIVE join(_)
join(words) ==
    IF words = <<>> THEN <<>>
    ELSE IF Len(words) = 1 THEN words[1]
    ELSE words[1] \o <<" ">> \o join(Tail(words))

strip_left(s) == SubSeq(s, skip_spaces(s, 1), Len(s))

strip_right(s) ==
    SubSeq(s, 1, Max({k \in 1..Len(s) : ~IsSpace(s[k])} \cup {0}))

\* _postprocess_one_ref without its whitespace normalisation
postprocess_hyphens_only(ref) == remove_hyphen_newline(ref)

_postprocess_one_ref(ref) ==
    strip_right(strip_left(join(split(remove_hyphen_newline(ref)))))

\* The loop of _extract_references over the text that is left.
RECURSIVE extract_loop(_, _)
extract_loop(text, found) ==
    LET m == _FIND_REF_REGEX(text) IN
    IF m = NoneT THEN found
    ELSE extract_loop(m[2], Append(found, _postprocess_one_ref(m[1])))

_extract_references(text) == extract_loop(text, <<>>)

(***************************************************************************)
(* Candidate scanning (tex.py: _probe_one_source, TexSources.scan_cwd)     *)
(* A file name and a path are sequences of tokens, "." and "/" included.   *)
(***************************************************************************)

\* Path.cwd() while _extract_inner runs: the working directory.
Cwd == <<"/", "tmp", "/", "work">>

\* What _find_files_cwd yields for a file of the working directory:
\* dir.iterdir() on the absolute Path.cwd() gives absolute paths.
_find_files_cwd(name) == Cwd \o <<"/">> \o name

\* str.rsplit(".", 1)[0]
rsplit_dot(s) ==
    LET D == {i \in 1..Len(s) : s[i] = "."} IN
    IF D = {} THEN s ELSE SubSeq(s, 1, Max(D) - 1)

_BASENAME_SCORE_DELTAS(basename) ==
    CASE basename = <<"mn2eguide">> -> -100
      [] basename = <<"mn2esample">> -> -100
      [] basename = <<"mnras_guide">> -> -100
      [] basename = <<"aa">> -> -100
      [] basename = <<"new_feat">> -> -50
      [] basename = <<"rnaas">> -> -5
      [] basename = <<"mnras_template">> -> -2
      [] OTHER -> 0

\* The control words of the model's texts.
ControlWords ==
    {"\\begin", "\\end", "\\END", "\\bibitem", "\\BIBITEM", "\\reference", "\\rn",
     "\\rf", "\\rfprep", "\\item", "\\ref", "\\bi", "\\em", "\\it", "\\emph",
     "\\textit", "\\documentclass", "\\documentstyle", "\\title", "\\section",
     "\\shorttitle", "\\newcommand", "\\def", "\\input", "\\textless",
     "\\textgreater"}

\* "\begin" \s* "{" env "}" at index i; the index after it, 0 if no match
BeginEnvAt(line, i, envs) ==
    IF i > Len(line) \/ line[i] # "\\begin" THEN 0
    ELSE LET j == skip_spaces(line, i + 1) IN
         IF j + 2 <= Len(line) /\ line[j] = "{" /\ line[j + 1] \in envs /\ line[j + 2] = "}"
         THEN j + 3 ELSE 0

\* _match_any(line, _LATEX_DOCCLASS_REGEXES)
_LATEX_DOCCLASS_REGEXES(line) ==
    LET i == skip_spaces(line, 1) IN
    \/ \* ^\s+\\begin\s\{document\}
       /\ i > 1
       /\ i + 4 <= Len(line)
       /\ line[i] = "\\begin"
       /\ IsSpace(line[i + 1])
       /\ line[i + 2] = "{" /\ line[i + 3] = "document" /\ line[i + 4] = "}"
    \/ \* ^\s*[^%$].*?\\begin\s*\{document\}
       /\ line # <<>>
       /\ line[1] \notin {"%", "$"}
       /\ \E j \in 2..Len(line) : BeginEnvAt(line, j, {"document"}) # 0
    \/ \* ^\s*\\documentclass\b  and  ^\s*\\documentstyle\b
       /\ i <= Len(line)
       /\ line[i] \in {"\\documentclass", "\\documentstyle"}
       /\ (i = Len(line) \/ line[i + 1] \notin WordTokens)

\* _match_any(line, _TEX_MAIN_FILE_REGEXES); a \b after "}" needs a word
\* character to follow.
_TEX_MAIN_FILE_REGEXES(line) ==
    LET i == skip_spaces(line, 1)
        low == [k \in DOMAIN line |-> Lower(line[k])]
    IN
    \/ Len(line) >= 2 /\ low[1] = "\\title" /\ low[2] = "{"
    \/ LET e == BeginEnvAt(low, i, {"abstract"}) IN
       e # 0 /\ e <= Len(line) /\ line[e] \in WordTokens
    \/ /\ i <= Len(line)
       /\ low[i] = "\\section"
       /\ LET j == skip_spaces(line, i + 1) IN
          /\ j + 3 <= Len(line)
          /\ low[j] = "{" /\ low[j + 1] = "introduction" /\ low[j + 2] = "}"
          /\ line[j + 3] \in WordTokens
    \/ BeginEnvAt(low, i, BibEnvs) # 0

\* "%auto-ignore" in line
AutoIgnoreIn(line) ==
    \E i \in 1..(Len(line) - 1) : line[i] = "%" /\ line[i + 1] = "auto-ignore"

\* ^\s*\\shorttitle\s*\{(.*)\} : <<m[1]>>, or None
shorttitle_match(line) ==
    LET i == skip_spaces(line, 1)
        j == skip_spaces(line, i + 1)
        K == {k \in (j + 1)..Len(line) : line[k] = "}"}
    IN IF i <= Len(line) /\ line[i] = "\\shorttitle" /\ j <= Len(line)
          /\ line[j] = "{" /\ K # {}
       THEN <<SubSeq(line, j + 1, Max(K) - 1)>>
       ELSE NoneT

\* "{" "\bibitem" \b somewhere at or after index p
WrapsBibitemFrom(line, p) ==
    \E k \in p..(Len(line) - 1) :
        /\ line[k] = "{"
        /\ Lower(line[k + 1]) = "\\bibitem"
        /\ (k + 1 = Len(line) \/ line[k + 2] \notin WordTokens)

\* ^\s*\\newcommand\s*\{\\([^\}]+)\}.*?\{\\bibitem\b  and
\* ^\s*\\def\{?\\(.+?)\{\\bibitem\b : <<the macro defined>>, or None.  The
\* lines of the model name the macro by one control word.
bibitem_def_match(line) ==
    LET i == skip_spaces(line, 1)
        j == skip_spaces(line, i + 1)
    IN IF i > Len(line) THEN NoneT
       ELSE IF /\ line[i] = "\\newcommand"
               /\ j + 2 <= Len(line)
               /\ line[j] = "{" /\ line[j + 1] \in ControlWords /\ line[j + 2] = "}"
               /\ WrapsBibitemFrom(line, j + 3)
       THEN <<line[j + 1]>>
       ELSE IF line[i] = "\\def"
       THEN LET d == IF i + 1 <= Len(line) /\ line[i + 1] = "{" THEN i + 2 ELSE i + 1 IN
            IF /\ d + 2 <= Len(line)
               /\ line[d] \in ControlWords
               /\ line[d + 1] = "{"
               /\ Lower(line[d + 2]) = "\\bibitem"
               /\ (d + 2 = Len(line) \/ line[d + 3] \notin WordTokens)
            THEN <<line[d]>> ELSE NoneT
       ELSE NoneT

\* ^\s*\\input\{\s*(\S*?)\s*\}  and  ^\s*\\input\s+(\S*?) : <<m[1]>>, or None
input_match(line) ==
    LET i == skip_spaces(line, 1) IN
    IF i > Len(line) \/ line[i] # "\\input" THEN NoneT
    ELSE IF i + 1 <= Len(line) /\ line[i + 1] = "{"
    THEN LET a == skip_spaces(line, i + 2)
             B == {b \in a..(Len(line) + 1) :
                      /\ \A k \in a..(b - 1) : ~IsSpace(line[k])
                      /\ LET c == skip_spaces(line, b) IN
                         c <= Len(line) /\ line[c] = "}"}
         IN IF B = {} THEN NoneT ELSE <<SubSeq(line, a, Min(B) - 1)>>
    ELSE IF i + 1 <= Len(line) /\ IsSpace(line[i + 1])
    THEN << <<>> >>
    ELSE NoneT

\* TexSourceItem.__init__
TexSourceItem(path) ==
    [path |-> path, score |-> 0, bibitem |-> "", title |-> <<>>, fmt |-> "",
     ignore |-> FALSE]

\* The line loop of _probe_one_source: <<item, non_main_files>>
RECURSIVE probe_lines(_, _, _)
probe_lines(item, nm, lines) ==
    IF lines = <<>> THEN <<item, nm>>
    ELSE
    LET line == Head(lines)
        i1 == IF _LATEX_DOCCLASS_REGEXES(line)
              THEN [item EXCEPT !.fmt = "latex", !.score = @ + 1]
              ELSE item
        st == shorttitle_match(line)
        bd == bibitem_def_match(line)
        im == input_match(line)
    IN
    IF AutoIgnoreIn(line) THEN <<[item EXCEPT !.ignore = TRUE], nm>>
    ELSE IF _TEX_MAIN_FILE_REGEXES(line)
    THEN probe_lines([i1 EXCEPT !.score = @ + 1], nm, Tail(lines))
    ELSE IF st # NoneT
    THEN probe_lines([i1 EXCEPT !.title = st[1], !.score = @ + 1], nm, Tail(lines))
    ELSE IF bd # NoneT
    THEN probe_lines([i1 EXCEPT !.bibitem = bd[1]], nm, Tail(lines))
    ELSE IF im # NoneT
    THEN probe_lines(i1, nm \cup {im[1]}, Tail(lines))
    ELSE probe_lines(i1, nm, Tail(lines))

\* binaryornot.check.is_binary: the file holds a NUL byte
is_binary(lines) == \E k \in DOMAIN lines : "NUL" \in Range(lines[k])

\* _file_lines returns None: the bytes are not text in any encoding
undecodable(lines) == \E k \in DOMAIN lines : "BADBYTES" \in Range(lines[k])

\* _probe_one_source: <<item, non_main_files>>; item is None (NoneT) for a
\* file that is no candidate.
_probe_one_source(name, lines, nm) ==
    LET s == name
        tex == \E e \in {"tex", "ltx", "latex", "revtex"} : EndsWith(s, <<".", e>>)
        bib == EndsWith(s, <<".", "bib">>) \/ EndsWith(s, <<".", "bbl">>)
        txt == EndsWith(s, <<".", "txt">>) \/ "." \notin Range(s)
        item0 == TexSourceItem(_find_files_cwd(name))
        item1 == [item0 EXCEPT !.score = (IF tex THEN 1 ELSE 0)
                                         + _BASENAME_SCORE_DELTAS(rsplit_dot(s))]
    IN
    IF "psfig" \in Range(s) \/ EndsWith(s, <<".", "eps">>) THEN <<NoneT, nm>>
    ELSE IF is_binary(lines) THEN <<NoneT, nm>>
    ELSE IF ~(tex \/ bib \/ txt) THEN <<NoneT, nm>>
    ELSE IF undecodable(lines) THEN <<NoneT, nm>>
    ELSE probe_lines(item1, nm, lines)

\* The insertion of an ascending sort (reverse=True forgotten)
RECURSIVE insert_ascending(_, _)
insert_ascending(sorted, x) ==
    IF sorted = <<>> THEN <<x>>
    ELSE IF Head(sorted).score <= x.score
    THEN <<Head(sorted)>> \o insert_ascending(Tail(sorted), x)
    ELSE <<x>> \o sorted

\* sorted(items, key=score, reverse=True): stable, so x goes after every
\* item whose score is not lower
RECURSIVE insert_sorted(_, _)
insert_sorted(sorted, x) ==
    IF sorted = <<>> THEN <<x>>
    ELSE IF Head(sorted).score >= x.score
    THEN <<Head(sorted)>> \o insert_sorted(Tail(sorted), x)
    ELSE <<x>> \o sorted

RECURSIVE sort_items(_, _)
sort_items(items, sorted) ==
    IF items = <<>> THEN sorted
    ELSE sort_items(Tail(items), insert_sorted(sorted, Head(items)))

\* Python's None as the value of a title
NoneTitle == <<None>>

\* The first value of field f among items that is not empty, else dflt
RECURSIVE first_nonempty(_, _, _, _)
first_nonempty(items, f, empty, dflt) ==
    IF items = <<>> THEN dflt
    ELSE IF Head(items)[f] # empty THEN Head(items)[f]
    ELSE first_nonempty(Tail(items), f, empty, dflt)

\* The probing loop of scan_cwd over the files as _find_files_cwd yields
\* them: <<items, non_main_files>>
RECURSIVE probe_all(_, _, _, _)
RECURSIVE probe_all_next(_, _, _, _)
probe_all(files, order, items, nm) ==
    IF order = <<>> THEN <<items, nm>>
    ELSE probe_all_next(files, order, items,
                        _probe_one_source(Head(order), files[Head(order)], nm))

\* "if item is None: continue; items.append(item)" for the probe result r
probe_all_next(files, order, items, r) ==
    probe_all(files, Tail(order),
              IF r[1] = NoneT THEN items ELSE Append(items, r[1]), r[2])

\* "Futz scores based on inclusions"
futz_score(item, nm) ==
    IF item.path \in nm THEN [item EXCEPT !.score = -2]
    ELSE IF rsplit_dot(item.path) \in nm THEN [item EXCEPT !.score = -1]
    ELSE item

\* "Futz scores based on inclusions" and "Sort"
futz_and_sort(items, nm) ==
    sort_items([k \in DOMAIN items |-> futz_score(items[k], nm)], <<>>)

\* The same, but every candidate gets the default values
apply_defaults_to_all(sorted) ==
    [k \in DOMAIN sorted |->
        [sorted[k] EXCEPT
            !.bibitem = first_nonempty(sorted, "bibitem", "", "\\bibitem"),
            !.title = first_nonempty(sorted, "title", <<>>, NoneTitle)]]

\* "Gather and apply defaulted meta-fields"
apply_defaults(sorted) ==
    [k \in DOMAIN sorted |->
        [sorted[k] EXCEPT
            !.bibitem = IF @ = "" THEN first_nonempty(sorted, "bibitem", "", "\\bibitem")
                        ELSE @,
            !.title = IF @ = <<>> THEN first_nonempty(sorted, "title", <<>>, NoneTitle)
                      ELSE @]]

\* scan_cwd after its probing loop has left <<items, non_main_files>>
scan_probed(p) == <<apply_defaults(futz_and_sort(p[1], p[2])), p[2]>>

\* TexSources.scan_cwd: <<items, non_main_files>>
scan_cwd(files, order) == scan_probed(probe_all(files, order, <<>>, {}))

(***************************************************************************)
(* tex.extract_references on one submission (tex.py: _extract_inner)       *)
(***************************************************************************)

\* The file name of a path of the working directory
relname(path) == SubSeq(path, Len(Cwd) + 2, Len(path))

\* str.replace(".gz", "")
RECURSIVE replace_gz(_)
replace_gz(s) ==
    IF Len(s) < 2 THEN s
    ELSE IF s[1] = "." /\ s[2] = "gz" THEN replace_gz(SubSeq(s, 3, Len(s)))
    ELSE <<Head(s)>> \o replace_gz(Tail(s))

\* "Unpack input": the working directory after unpacking the fulltext.
\* An archive holds a directory of files, any other fulltext holds the
\* lines of one file.
unpack(sub) ==
    LET input_base == sub.ft IN
    IF EndsWith(input_base, <<".", "tar", ".", "gz">>) \/ EndsWith(input_base, <<".", "tgz">>)
       \/ EndsWith(input_base, <<".", "tar">>)
    THEN sub.content
    ELSE IF EndsWith(input_base, <<".", "gz">>)
    THEN replace_gz(input_base) :> sub.content
    ELSE IF EndsWith(input_base, <<".", "tex">>)
    THEN input_base :> sub.content
    ELSE (input_base \o <<".", "tex">>) :> sub.content

\* Whether unpacking runs a subprocess through item_exec (tar, zcat), which
\* raises CalledProcessError when the subprocess fails.
unpack_execs(sub) ==
    \E e \in {<<".", "gz">>, <<".", "tgz">>, <<".", "tar">>} : EndsWith(sub.ft, e)

\* TexSources.munge_refs, the loop over the items: the files as the munges
\* leave them, the counts returned, and whether a munge raised.
RECURSIVE munge_all(_, _, _)
RECURSIVE munge_all_next(_, _, _, _)
munge_all(items, files, log) ==
    IF items = <<>> THEN [raised |-> FALSE, files |-> files, log |-> log]
    ELSE IF Head(items).ignore THEN munge_all(Tail(items), files, Append(log, 0))
    ELSE munge_all_next(items, files, log,
                        munge_refs(Head(items).path, files[relname(Head(items).path)],
                                   Head(items).bibitem))

\* What the loop does with the result m of munging its first item
munge_all_next(items, files, log, m) ==
    IF m.raised THEN [raised |-> TRUE, files |-> files, log |-> log]
    ELSE munge_all(Tail(items),
                   [files EXCEPT ![relname(Head(items).path)] = m.out],
                   Append(log, m.n_tagged))

RECURSIVE SumSeq(_)
SumSeq(q) == IF q = <<>> THEN 0 ELSE Head(q) + SumSeq(Tail(q))

\* Control words that typeset nothing by themselves.
TypesetControlWords ==
    ControlWords \cup
    {"\\newpage", "\\providecommand", "\\onecolumn", "\\relax", "\\sloppy",
     "\\raggedright", "\\hyphenpenalty", "\\exhyphenpenalty", "\\UrlBreaks",
     "\\UrlBigBreaks", "\\UrlNoBreaks", "\\do", "\\:", "\\-"}

\* What a faithful pdflatex + pdftotext make of one token: \textless and
\* \textgreater become < and >, braces and other control words print
\* nothing (""), anything else prints as it stands.
Typeset(tok) ==
    CASE tok = "\\textless" -> "<"
      [] tok = "\\textgreater" -> ">"
      [] tok \in {"{", "}"} \cup TypesetControlWords -> ""
      [] OTHER -> tok

\* ... and of one source line: a comment is dropped, the tokens before it
\* are typeset one by one.
RenderLine(line) ==
    LET Prints(k) == /\ PercentIndex(line) \in {0} \cup (k + 1)..Len(line)
                     /\ Typeset(line[k]) # ""
        shown == SelectSeq([k \in 1..Len(line) |-> k], Prints)
    IN [j \in 1..Len(shown) |-> Typeset(line[shown[j]])]

\* The text of a faithfully rendered file, one text line per source line.
RECURSIVE Render(_)
Render(lines) ==
    IF lines = <<>> THEN <<>>
    ELSE RenderLine(Head(lines)) \o <<"\n">> \o Render(Tail(lines))

\* Texts pdftotext may produce when the rendering is not faithful.
ArbitraryTexts ==
    { <<"a", " ", "b">>,
      <<"<", "r", ">", " ", "<", "/", "r", ">">>,
      <<"<", "r", ">", "a", "<", "/", "r", ">">>,
      <<"<", "r", ">", "a", "-", "\n", "b", "<", "/", "r", ">", "x",
        "<", "r", ">", "c", " ", " ", "d", "<", " ", "/", "r", ">">> }

\* What running pdflatex and pdftotext on a candidate can come to: how the
\* pdflatex run ended (it returned, with whatever exit status, or it was
\* killed after the timeout), and what is found in place of its output
\* afterwards.  A run that was killed has not rendered the source faithfully.
TypesetOutcomes ==
    {[exit |-> "returned", kind |-> k, text |-> <<>>] :
        k \in {"no_output", "empty_output", "pdftotext_fails", "faithful"}}
    \cup {[exit |-> "timeout", kind |-> k, text |-> <<>>] :
             k \in {"no_output", "empty_output", "pdftotext_fails"}}
    \cup {[exit |-> x, kind |-> "text", text |-> t] :
             x \in {"returned", "timeout"}, t \in ArbitraryTexts}

\* extract_refs_as_main_file without its test of the ignore flag
extract_refs_unflagged(item, files, o) ==
    IF o.kind \in {"no_output", "empty_output"}
    THEN [typeset |-> TRUE, raised |-> FALSE, refs |-> <<>>]
    ELSE IF o.kind = "pdftotext_fails"
    THEN [typeset |-> TRUE, raised |-> TRUE, refs |-> <<>>]
    ELSE [typeset |-> TRUE, raised |-> FALSE,
          refs |-> _extract_references(
                       IF o.kind = "faithful" THEN Render(files[relname(item.path)])
                       ELSE o.text)]

\* TexSourceItem.extract_refs_as_main_file under outcome o of the tools:
\* whether pdflatex was run, whether the call raised, and the list returned.
extract_refs_as_main_file(item, files, o) ==
    IF item.ignore
    THEN [typeset |-> FALSE, raised |-> FALSE, refs |-> <<>>]
    ELSE IF o.kind \in {"no_output", "empty_output"}
    THEN [typeset |-> TRUE, raised |-> FALSE, refs |-> <<>>]
    ELSE IF o.kind = "pdftotext_fails"
    THEN [typeset |-> TRUE, raised |-> TRUE, refs |-> <<>>]
    ELSE [typeset |-> TRUE, raised |-> FALSE,
          refs |-> _extract_references(
                       IF o.kind = "faithful" THEN Render(files[relname(item.path)])
                       ELSE o.text)]

\* The withdrawal test asking for more than one item
is_withdrawn_several(items, n_total) ==
    n_total = 0 /\ Len(items) > 1 /\ items[1].ignore

\* "if len(self.items) == 1 and self.items[0].ignore" under n_total == 0
is_withdrawn(items, n_total) ==
    n_total = 0 /\ Len(items) = 1 /\ items[1].ignore

\* The target file written without the "%Z" line
written_file_without_z(bibcode, found) ==
    [exists |-> TRUE, lines |-> << <<"%", "R", " ", bibcode>> >> \o found]

\* The target file as _extract_inner writes it.
written_file(bibcode, found) ==
    [exists |-> TRUE,
     lines |-> << <<"%", "R", " ", bibcode>>, <<"%", "Z">> >> \o found]

ResultInt(n) == [kind |-> "int", n |-> n, s |-> ""]
ResultStr(str) == [kind |-> "str", n |-> 0, s |-> str]
ResultRaised == [kind |-> "raise", n |-> 0, s |-> ""]
ResultPending == [kind |-> "pending", n |-> 0, s |-> ""]

\* All orders in which iterdir() may yield the files of the directory.
Orders(S) == {o \in [1..Cardinality(S) -> S] : Range(o) = S}

\* ---- the submissions of the model ----

BeginBib == <<"\\begin", "{", "thebibliography", "}", "{", "9", "9", "}">>
EndBib == <<"\\end", "{", "thebibliography", "}">>
SmithText == <<"S", "m", "i", "t", "h", ",", " ", "J", ".", " ", "2", "0", "2", "0", ".">>
SmithEntry == <<"\\bibitem", "{", "a", "}", " ">> \o SmithText

\* \begin{thebibliography}{99}\bibitem{a} Smith, J. 2020.\end{thebibliography}
\* with or without a line break after the opening line (nl1) and before
\* the end marker (nl2)
SmithBib(nl1, nl2) ==
    IF nl1 /\ nl2 THEN <<BeginBib, SmithEntry, EndBib>>
    ELSE IF nl1 THEN <<BeginBib, SmithEntry \o EndBib>>
    ELSE IF nl2 THEN <<BeginBib \o SmithEntry, EndBib>>
    ELSE <<BeginBib \o SmithEntry \o EndBib>>

SmithBibs == {SmithBib(nl1, nl2) : nl1 \in BOOLEAN, nl2 \in BOOLEAN}

EmptyEntryBib == <<BeginBib, <<"\\bibitem", "{", "a", "}">>, EndBib>>
TwoEntryBib ==
    <<BeginBib, <<"\\bibitem", "{", "a", "}", " ", "x">>,
      <<"\\bibitem", "{", "b", "}", " ", "q">>, EndBib>>
UnbalancedBib == <<BeginBib, <<"\\bibitem", "{", "a">>, EndBib>>
AutoIgnoreOnly == << <<"%", "auto-ignore">> >>
AutoIgnoreThenBib == AutoIgnoreOnly \o SmithBib(TRUE, TRUE)
PlainText == << <<"x">> >>

DocClassLine == <<"\\documentclass", "{", "x", "}">>
TitleLine == <<"\\title", "{", "x", "}">>
AbstractLine == <<"\\begin", "{", "abstract", "}", "x">>
BeginDocLines ==
    { <<"\\begin", "{", "document", "}">>,
      <<" ", "\\begin", "{", "document", "}">>,
      <<" ", "\\begin", " ", "{", "document", "}">> }

InputLines ==
    { <<"\\input", "{", "other", "}">>,
      <<"\\input", "{", "other", ".", "tex", "}">>,
      <<"\\input", "{">> \o _find_files_cwd(<<"other">>) \o <<"}">>,
      <<"\\input", "{">> \o _find_files_cwd(<<"other", ".", "tex">>) \o <<"}">>,
      <<"\\input", " ", "other">> }

MainTex == <<"main", ".", "tex">>
OtherTex == <<"other", ".", "tex">>
PaperTex == <<"paper", ".", "tex">>
IgnoredTex == <<"a", ".", "tex">>
PenalizedNames == { <<"mnras_template", ".", "tex">>, <<"aa", ".", "tex">> }
BoilerplateContents ==
    { <<>>, PlainText, <<DocClassLine, TitleLine, AbstractLine, BeginBib>> }

\* Directories with files that define a bibliography macro of their own and
\* a short title, next to a file that does not.
MacroArchives ==
    { (MainTex :> <<DocClassLine, <<"\\def", "\\rf", "{", "\\bibitem", "}">>,
                    <<"\\shorttitle", "{", "m", "}">> >>)
          @@ (OtherTex :> << <<"\\newcommand", "{", "\\bi", "}", "{", "\\bibitem", "}">>,
                             <<"\\shorttitle", "{", "o", "}">> >>)
          @@ (PaperTex :> PlainText) }

\* The directories an archive may hold.
Archives ==
    MacroArchives
    \cup
    {(MainTex :> <<DocClassLine, il>>) @@ (OtherTex :> oc) :
        il \in InputLines, oc \in {PlainText, <<TitleLine>> \o SmithBib(TRUE, TRUE)}}
    \cup
    {(pn :> pc) @@ (PaperTex :> (<<bd>> \o SmithBib(TRUE, TRUE))) :
        pn \in PenalizedNames, pc \in BoilerplateContents, bd \in BeginDocLines}
    \cup
    { (IgnoredTex :> AutoIgnoreOnly) @@ (PaperTex :> SmithBib(TRUE, TRUE)),
      (IgnoredTex :> AutoIgnoreOnly) @@ (OtherTex :> AutoIgnoreThenBib),
      (IgnoredTex :> AutoIgnoreOnly),
      (PaperTex :> TwoEntryBib),
      (OtherTex :> UnbalancedBib) @@ (PaperTex :> SmithBib(TRUE, TRUE)),
      (<<"x", ".", "eps">> :> PlainText),
      (<<"x", ".", "sty">> :> PlainText) @@ (PaperTex :> << <<"NUL">> >>),
      (PaperTex :> << <<"BADBYTES">> >>),
      (MainTex :> <<DocClassLine, <<"\\input", "{", "other", "}">>, BeginBib>>)
          @@ (OtherTex :> TwoEntryBib) @@ (IgnoredTex :> AutoIgnoreOnly),
      (IgnoredTex :> <<DocClassLine, TitleLine, <<"%", "auto-ignore">> >>)
          @@ (PaperTex :> SmithBib(TRUE, TRUE)) @@ (OtherTex :> PlainText) }

Submissions ==
    {[ft |-> PaperTex, content |-> c, bibcode |-> "2020xxxx"] :
        c \in SmithBibs \cup {EmptyEntryBib, TwoEntryBib, UnbalancedBib,
                              AutoIgnoreOnly, AutoIgnoreThenBib, PlainText}}
    \cup
    {[ft |-> f, content |-> c, bibcode |-> "2020xxxx"] :
        f \in { <<"paper", ".", "tex", ".", "gz">>, <<"paper", ".", "gz">>, <<"paper">> },
        c \in {SmithBib(TRUE, TRUE), AutoIgnoreOnly}}
    \cup
    {[ft |-> <<"paper", ".", "tar", ".", "gz">>, content |-> a, bibcode |-> "2020xxxx"] :
        a \in Archives}

\* The session as far as _extract_inner reads it; process() is not running.
InitTex ==
    /\ input_stream = <<>>
    /\ output_stream = <<>>
    /\ n_inputs = 0
    /\ n_failures = 0
    /\ force = FALSE
    /\ no_pdf = FALSE
    /\ no_tex = FALSE
    /\ skip_refs \in BOOLEAN
    /\ pdf_backend = "perl"
    /\ ft_exists = {"tex"}
    /\ tr_state = [pdf |-> "absent", tex |-> "absent"]
    /\ _current_item = ItemStem
    \* the PDF leg of process_one may have given up before the TeX leg runs
    /\ _failure_reason \in {None, "missing-fulltext"}
    /\ last_call = NoCall
    /\ spc = "item"
    /\ submission \in Submissions
    /\ give_up_log = <<>>
    /\ t_pc = "start"
    /\ workdir \in {None, "debug_source_files_dir"}
    /\ os_cwd = "orig_dir"
    /\ tmpdir = "none"
    /\ call_log = <<>>
    /\ cwd_files = <<>>
    /\ sources = <<>>
    /\ non_main_files = {}
    /\ t_idx = 0
    /\ typeset_log = <<>>
    /\ tried_log = <<>>
    /\ refs = <<>>
    /\ t_result = ResultPending
    /\ tr_file \in {[exists |-> FALSE, lines |-> <<>>],
                    [exists |-> TRUE, lines |-> << <<"o", "l", "d">> >>]}
    /\ tr_file0 = tr_file
    /\ munge_log = <<>>
    /\ ToolsIdle

\* extract_references on entry (tex.py 69-78): where it changes directory
\* to, and the state of the temporary directory it makes when it is given
\* no workdir.
entered ==
    IF workdir = None THEN [cwd |-> "tmpdir", tmp |-> "exists"]
    ELSE [cwd |-> "workdir", tmp |-> "none"]

\* The same, but orig_dir is not changed back to.
leave_without_chdir(ended, cwd, tmp) ==
    /\ os_cwd' = cwd
    /\ tmpdir' = IF ended /\ tmp = "exists" THEN "removed" ELSE tmp

\* extract_references when _extract_inner, running in cwd with the
\* temporary directory in state tmp, has ended or goes on: the end of the
\* "with" block removes the temporary directory, the "finally" clause
\* changes back to orig_dir (tex.py 76-80).
leave(ended, cwd, tmp) ==
    /\ os_cwd' = IF ended THEN "orig_dir" ELSE cwd
    /\ tmpdir' = IF ended /\ tmp = "exists" THEN "removed" ELSE tmp

\* extract_references from its call to the end of "Unpack input" of
\* _extract_inner (tex.py 69-78, 97-118)
Unpack ==
    /\ t_pc = "start"
    /\ \E ok \in BOOLEAN :
         /\ ok \/ unpack_execs(submission)
         /\ IF ok
            THEN /\ cwd_files' = unpack(submission)
                 /\ t_pc' = "unpacked"
                 /\ t_result' = t_result
            ELSE /\ cwd_files' = cwd_files
                 /\ t_pc' = "done"
                 /\ t_result' = ResultRaised
         /\ leave(~ok, entered.cwd, entered.tmp)
    /\ UNCHANGED <<sessVars, submission, give_up_log, sources, non_main_files, t_idx,
                   typeset_log, tried_log, refs, tr_file, tr_file0, toolVars, munge_log,
                   workdir, call_log>>

\* The candidates and the files set aside after a scan with outcome r
scanned(r) ==
    /\ sources' = r[1]
    /\ non_main_files' = r[2]

\* sources = TexSources.scan_cwd(session) (tex.py 129)
ScanCwd ==
    /\ t_pc = "unpacked"
    /\ \E order \in Orders(DOMAIN cwd_files) :
         /\ scanned(scan_cwd(cwd_files, order))
         /\ call_log' = Append(call_log, [fn |-> "_find_files_cwd", result |-> order])
    /\ t_pc' = "scanned"
    /\ UNCHANGED <<sessVars, submission, give_up_log, cwd_files, t_idx, typeset_log,
                   tried_log, refs, t_result, tr_file, tr_file0, toolVars, munge_log, dirVars>>

\* What _extract_inner does with the outcome m of TexSources.munge_refs
munged(m) ==
    /\ cwd_files' = m.files
    /\ munge_log' = m.log
    /\ IF m.raised
       THEN t_pc' = "done" /\ t_result' = ResultRaised
       ELSE IF is_withdrawn(sources, SumSeq(m.log))
       THEN t_pc' = "done" /\ t_result' = ResultStr("withdrawn")
       ELSE t_pc' = "munged" /\ t_result' = t_result
    /\ leave(t_pc' = "done", os_cwd, tmpdir)

\* if sources.munge_refs(session): return "withdrawn" (tex.py 133-134)
MungeRefs ==
    /\ t_pc = "scanned"
    /\ munged(munge_all(sources, cwd_files, <<>>))
    /\ t_idx' = 1
    /\ UNCHANGED <<sessVars, submission, give_up_log, sources, non_main_files,
                   typeset_log, tried_log, refs, tr_file, tr_file0, toolVars, workdir,
                   call_log>>

\* The same, but a run of pdflatex that timed out is repeated once.
tried_with_retry(item, o, r) ==
    /\ typeset_log' = IF r.typeset
                      THEN typeset_log
                           \o [j \in 1..(IF o.exit = "timeout" THEN 2 ELSE 1) |->
                                  [path |-> item.path, kind |-> o.kind, exit |-> o.exit]]
                      ELSE typeset_log
    /\ tried_log' = Append(tried_log, [path |-> item.path, raised |-> r.raised,
                                       refs |-> r.refs])
    /\ IF r.raised
       THEN t_pc' = "done" /\ t_result' = ResultRaised /\ refs' = refs
       ELSE IF r.refs # <<>>
       THEN t_pc' = "extracted" /\ t_result' = t_result /\ refs' = r.refs
       ELSE t_pc' = t_pc /\ t_result' = t_result /\ refs' = refs
    /\ leave(t_pc' = "done", os_cwd, tmpdir)

\* What extract_refs does with the outcome r of trying item under o
tried(item, o, r) ==
    /\ typeset_log' = IF r.typeset
                      THEN Append(typeset_log, [path |-> item.path, kind |-> o.kind,
                                                exit |-> o.exit])
                      ELSE typeset_log
    /\ tried_log' = Append(tried_log, [path |-> item.path, raised |-> r.raised,
                                       refs |-> r.refs])
    /\ IF r.raised
       THEN t_pc' = "done" /\ t_result' = ResultRaised /\ refs' = refs
       ELSE IF r.refs # <<>>
       THEN t_pc' = "extracted" /\ t_result' = t_result /\ refs' = r.refs
       ELSE t_pc' = t_pc /\ t_result' = t_result /\ refs' = refs
    /\ leave(t_pc' = "done", os_cwd, tmpdir)

\* TexSources.extract_refs, one turn of its loop (tex.py 814-817)
TryCandidate ==
    /\ t_pc = "munged"
    /\ t_idx <= Len(sources)
    /\ \E o \in TypesetOutcomes :
         tried(sources[t_idx], o, extract_refs_as_main_file(sources[t_idx], cwd_files, o))
    /\ t_idx' = t_idx + 1
    /\ UNCHANGED <<sessVars, submission, give_up_log, cwd_files, sources,
                   non_main_files, tr_file, tr_file0, toolVars, munge_log, workdir, call_log>>

\* TexSources.extract_refs, after its loop (tex.py 819-820)
NoMainFileWorked ==
    /\ t_pc = "munged"
    /\ t_idx > Len(sources)
    /\ _failure_reason' = item_give_up(_failure_reason, "no-main-file-worked")
    /\ give_up_log' = Append(give_up_log, "no-main-file-worked")
    /\ refs' = <<>>
    /\ t_pc' = "extracted"
    /\ UNCHANGED <<input_stream, output_stream, n_inputs, n_failures, force, no_pdf,
                   no_tex, skip_refs, pdf_backend, ft_exists, tr_state, _current_item,
                   last_call, spc, submission, cwd_files, sources, non_main_files,
                   t_idx, typeset_log, tried_log, t_result, tr_file, tr_file0, toolVars,
                   munge_log, dirVars, call_log>>

\* _extract_inner from "if not refs" to its end (tex.py 158-178), and the
\* return of extract_references
WriteRefs ==
    /\ t_pc = "extracted"
    /\ t_pc' = "done"
    /\ leave(TRUE, os_cwd, tmpdir)
    /\ IF refs = <<>>
       THEN /\ t_result' = ResultInt(-1)
            /\ UNCHANGED <<_failure_reason, give_up_log, tr_file>>
       ELSE IF skip_refs
       THEN /\ _failure_reason' = item_give_up(_failure_reason, "skip-refs")
            /\ give_up_log' = Append(give_up_log, "skip-refs")
            /\ t_result' = ResultInt(Len(refs))
            /\ UNCHANGED tr_file
       ELSE /\ tr_file' = written_file(submission.bibcode, refs)
            /\ t_result' = ResultInt(Len(refs))
            /\ UNCHANGED <<_failure_reason, give_up_log>>
    /\ UNCHANGED <<input_stream, output_stream, n_inputs, n_failures, force, no_pdf,
                   no_tex, skip_refs, pdf_backend, ft_exists, tr_state, _current_item,
                   last_call, spc, submission, cwd_files, sources, non_main_files,
                   t_idx, typeset_log, tried_log, refs, tr_file0, toolVars, munge_log,
                   workdir, call_log>>

NextTex == Unpack \/ ScanCwd \/ MungeRefs \/ TryCandidate \/ NoMainFileWorked \/ WriteRefs

SpecTex == InitTex /\ [][NextTex]_vars

(***************************************************************************)
(* TexSourceItem.munge_refs run repeatedly on one file (SpecMunge)         *)
(***************************************************************************)

\* The session and the target file play no part.
SessionAside ==
    /\ input_stream = <<>>
    /\ output_stream = <<>>
    /\ n_inputs = 0
    /\ n_failures = 0
    /\ force = FALSE
    /\ no_pdf = FALSE
    /\ no_tex = FALSE
    /\ skip_refs = FALSE
    /\ pdf_backend = "perl"
    /\ ft_exists = {"tex"}
    /\ tr_state = [pdf |-> "absent", tex |-> "absent"]
    /\ _current_item = ItemStem
    /\ _failure_reason = None
    /\ last_call = NoCall
    /\ spc = "item"
    /\ give_up_log = <<>>
    /\ non_main_files = {}
    /\ t_idx = 0
    /\ typeset_log = <<>>
    /\ tried_log = <<>>
    /\ t_result = ResultPending
    /\ tr_file = [exists |-> FALSE, lines |-> <<>>]
    /\ tr_file0 = [exists |-> FALSE, lines |-> <<>>]
    /\ workdir = None
    /\ os_cwd = "orig_dir"
    /\ tmpdir = "none"
    /\ call_log = <<>>

\* The physical lines the munged files are made of.
MungeLineKinds ==
    { BeginBib, EndBib,
      <<"\\bibitem", "{", "a", "}", " ", "x">>,
      <<"\\bibitem", "{", "a", "}", " ", "x", " ", "\\bibitem", "{", "b", "}", " ", "q">>,
      <<"\\bibitem", "{", "a", "}", " ", "x", " ", "%", " ", "c">>,
      <<"q">>,
      <<"%", " ", "c">> }

InitMunge ==
    /\ SessionAside
    /\ ToolsIdle
    /\ submission \in {[ft |-> n, content |-> c, bibcode |-> "2020xxxx"] :
                          n \in {PaperTex, <<"x", ".", "bbl">>},
                          c \in SeqsUpTo(MungeLineKinds, MaxLines)}
    /\ cwd_files = submission.ft :> submission.content
    /\ sources = << [TexSourceItem(_find_files_cwd(submission.ft))
                        EXCEPT !.bibitem = "\\bibitem", !.title = NoneTitle] >>
    /\ t_pc = "munging"
    /\ refs = <<>>
    /\ munge_log = <<>>

\* The file and the count after a munge_refs run with outcome m
remunged(name, m) ==
    IF m.raised
    THEN /\ t_pc' = "done"
         /\ t_result' = ResultRaised
         /\ UNCHANGED <<cwd_files, munge_log>>
    ELSE /\ cwd_files' = [cwd_files EXCEPT ![name] = m.out]
         /\ munge_log' = Append(munge_log, m.n_tagged)
         /\ UNCHANGED <<t_pc, t_result>>

\* item.munge_refs(session) on the file as the previous run left it
MungeAgain ==
    /\ t_pc = "munging"
    /\ Len(munge_log) < MaxMunges
    /\ remunged(relname(sources[1].path),
                munge_refs(sources[1].path, cwd_files[relname(sources[1].path)],
                           sources[1].bibitem))
    /\ UNCHANGED <<sessVars, submission, give_up_log, sources, non_main_files, t_idx,
                   typeset_log, tried_log, refs, tr_file, tr_file0, toolVars, dirVars,
                   call_log>>

NextMunge == MungeAgain

SpecMunge == InitMunge /\ [][NextMunge]_vars

(***************************************************************************)
(* One run of TexSourceItem.munge_refs, with its temporary file            *)
(* (SpecMungeOnce)                                                          *)
(***************************************************************************)

\* The physical lines of the reference sections that are munged.
SectionLineKinds ==
    { EndBib,
      <<"\\bibitem", "{", "a", "}", " ", "x">>,
      <<"\\bibitem", "{", "a", "}", " ", "x", " ", "\\bibitem", "{", "b", "}", " ", "q">>,
      <<"\\bibitem", "{", "a", "}", " ", "x", " ", "%", " ", "c">>,
      <<"\\bibitem", "{", "a", "}", " ", "x", " ", "\\", "%", " ", "%", " ", "c">>,
      <<"\\bibitem">>,
      <<"\\bibitem", "{", "a">>,
      <<"q">>,
      <<"%", " ", "c">> }

\* The name NamedTemporaryFile gives its file in the directory of the source.
TmpName == <<"tmpXXXXXXXX">>

\* A .bbl file is munged from its first line; a .tex file from the line
\* after the one that opens the bibliography.
InitMungeOnce ==
    /\ SessionAside
    /\ ToolsIdle
    /\ submission \in
           {[ft |-> <<"x", ".", "bbl">>, content |-> c, bibcode |-> "2020xxxx"] :
               c \in SeqsUpTo(SectionLineKinds, MaxLines)}
           \cup {[ft |-> PaperTex, content |-> <<BeginBib>> \o c, bibcode |-> "2020xxxx"] :
                    c \in SeqsUpTo(SectionLineKinds, MaxLines)}
    /\ cwd_files = submission.ft :> submission.content
    /\ sources = << [TexSourceItem(_find_files_cwd(submission.ft))
                        EXCEPT !.bibitem = "\\bibitem", !.title = NoneTitle] >>
    /\ t_pc = "munging"
    /\ refs = <<>>
    /\ munge_log = <<>>

\* munge_refs reads the file and opens its temporary file (tex.py 351-360)
OpenTemp ==
    /\ t_pc = "munging"
    /\ t_pc' = "writing"
    /\ cwd_files' = cwd_files @@ (TmpName :> <<>>)
    /\ UNCHANGED <<sessVars, submission, give_up_log, sources, non_main_files, t_idx,
                   typeset_log, tried_log, refs, t_result, tr_file, tr_file0,
                   munge_log, dirVars, call_log, toolVars>>

\* The same, but printing into the source file itself.
munged_in_place(name, m) ==
    /\ cwd_files' = [n \in DOMAIN cwd_files \ {TmpName} |->
                        IF n = name THEN m.out ELSE cwd_files[n]]
    /\ IF m.raised
       THEN t_result' = ResultRaised /\ UNCHANGED munge_log
       ELSE /\ t_result' = ResultInt(m.n_tagged)
            /\ munge_log' = Append(munge_log, m.n_tagged)

\* How a run of munge_refs with outcome m ends: an exception leaves the
\* temporary file as it is (delete=False), a normal end renames it onto the
\* source (tex.py 467-470)
munged_once(name, m) ==
    IF m.raised
    THEN /\ cwd_files' = [cwd_files EXCEPT ![TmpName] = m.out]
         /\ t_result' = ResultRaised
         /\ UNCHANGED munge_log
    ELSE /\ cwd_files' = [n \in DOMAIN cwd_files \ {TmpName} |->
                             IF n = name THEN m.out ELSE cwd_files[n]]
         /\ t_result' = ResultInt(m.n_tagged)
         /\ munge_log' = Append(munge_log, m.n_tagged)

\* The loops of munge_refs and what follows them (tex.py 362-470)
WriteAndRename ==
    /\ t_pc = "writing"
    /\ t_pc' = "done"
    /\ munged_once(relname(sources[1].path),
                   munge_refs(sources[1].path, cwd_files[relname(sources[1].path)],
                              sources[1].bibitem))
    /\ UNCHANGED <<sessVars, submission, give_up_log, sources, non_main_files, t_idx,
                   typeset_log, tried_log, refs, tr_file, tr_file0, dirVars,
                   call_log, toolVars>>

\* How a run that would have ended with outcome m ends when it is
\* interrupted (KeyboardInterrupt) after k lines were printed
interrupted_once(m, k) ==
    /\ k <= Len(m.out)
    /\ cwd_files' = [cwd_files EXCEPT ![TmpName] = SubSeq(m.out, 1, k)]

\* The run is interrupted inside the "with" block: the exception leaves
\* munge_refs before os.rename
Interrupted ==
    /\ t_pc = "writing"
    /\ t_pc' = "done"
    /\ t_result' = ResultRaised
    /\ \E k \in 0..MaxWritten :
           interrupted_once(munge_refs(sources[1].path,
                                       cwd_files[relname(sources[1].path)],
                                       sources[1].bibitem), k)
    /\ UNCHANGED <<sessVars, submission, give_up_log, sources, non_main_files, t_idx,
                   typeset_log, tried_log, refs, tr_file, tr_file0, munge_log,
                   dirVars, call_log, toolVars>>

NextMungeOnce == OpenTemp \/ WriteAndRename \/ Interrupted

SpecMungeOnce == InitMungeOnce /\ [][NextMungeOnce]_vars

(***************************************************************************)
(* classic_analytics.compare_outcomes (SpecCompare)                        *)
(***************************************************************************)

\* The run of the extractor is no part of the comparison.
ExtractorAside ==
    /\ SessionAside
    /\ submission = <<>>
    /\ cwd_files = <<>>
    /\ sources = <<>>
    /\ t_pc = "idle"
    /\ refs = <<>>
    /\ munge_log = <<>>

SessionStems == 1..MaxStems

\* What _target_refs_for_session yields for an item, without the stem: the
\* extension of the fulltext and the reconstructed target path, or None
\* when the line of extractrefs.out holds the fulltext path alone.
TargetRefs == {<<ext, p>> : ext \in {"tex", "pdf"}, p \in {None, "raw"}}

\* dict(...) of the items of one extractrefs.out
ResultDicts == UNION {[S -> TargetRefs] : S \in SUBSET SessionStems}

\* dict.get(stem, ("missing", None))
get(results, stem) ==
    IF stem \in DOMAIN results THEN results[stem] ELSE <<"missing", None>>

\* The results after the withdrawn items W of the two logs were entered
with_withdrawn(results, W) ==
    [s \in DOMAIN results \cup W |->
        IF s \in W THEN <<"tex.gz", "withdrawn">> ELSE results[s]]

\* The two extractrefs.out files have been read.
InitCompare ==
    /\ ExtractorAside
    /\ A_results \in ResultDicts
    /\ B_results \in ResultDicts
    /\ ignore_pdfonly \in BOOLEAN
    /\ stems = {}
    /\ failures = {}
    /\ regressions = {}
    /\ fixes = {}
    /\ n_preserves = 0
    /\ n_ignored_pdfs = 0
    /\ c_pc = "read"
    /\ ResolverIdle

\* The "% withdrawn" lines of the two logs are entered into both results
\* and the stems are collected (classic_analytics.py 335-361)
ScanWithdrawn ==
    /\ c_pc = "read"
    /\ \E W \in SUBSET SessionStems :
           /\ A_results' = with_withdrawn(A_results, W)
           /\ B_results' = with_withdrawn(B_results, W)
    /\ stems' = DOMAIN A_results' \cup DOMAIN B_results'
    /\ c_pc' = "loop"
    /\ UNCHANGED <<sessVars, texVars, resolverVars, ignore_pdfonly, failures,
                   regressions, fixes, n_preserves, n_ignored_pdfs>>

\* The test that sends an item to the ignored PDF-only items: "and" binds
\* tighter than "or" (classic_analytics.py 370)
ignores_pdf(ignore, A_ext, B_ext) == (ignore /\ A_ext = "pdf") \/ B_ext = "pdf"

\* One iteration of "for stem in stems" on the results A and B of the stem
compared(stem, A, B) ==
    IF ignores_pdf(ignore_pdfonly, A[1], B[1])
    THEN /\ n_ignored_pdfs' = n_ignored_pdfs + 1
         /\ UNCHANGED <<failures, fixes, regressions, n_preserves>>
    ELSE /\ failures' = IF A[2] = None /\ B[2] = None
                        THEN failures \cup {stem} ELSE failures
         /\ fixes' = IF A[2] = None /\ B[2] # None THEN fixes \cup {stem} ELSE fixes
         /\ regressions' = IF A[2] # None /\ B[2] = None
                           THEN regressions \cup {stem} ELSE regressions
         /\ n_preserves' = IF A[2] # None /\ B[2] # None
                           THEN n_preserves + 1 ELSE n_preserves
         /\ UNCHANGED n_ignored_pdfs

\* The loop visits the stems in the order of the set (classic_analytics.py
\* 365-381)
CompareStem ==
    /\ c_pc = "loop"
    /\ \E stem \in stems :
           /\ compared(stem, get(A_results, stem), get(B_results, stem))
           /\ stems' = stems \ {stem}
    /\ UNCHANGED <<sessVars, texVars, resolverVars, A_results, B_results,
                   ignore_pdfonly, c_pc>>

\* The summary lines that are yielded after the lists
summary_lines ==
    << <<"fixed items", Cardinality(fixes)>>,
       <<"regressed items", Cardinality(regressions)>>,
       <<"preserved successes", n_preserves>>,
       <<"unfixed failures", Cardinality(failures)>> >>
    \o IF ignore_pdfonly THEN << <<"ignored PDF-only items", n_ignored_pdfs>> >>
       ELSE <<>>

\* The lists and the summary are yielded (classic_analytics.py 385-410)
EmitSummary ==
    /\ c_pc = "loop"
    /\ stems = {}
    /\ c_pc' = "done"
    /\ call_log' = summary_lines
    /\ UNCHANGED <<sessVars, submission, give_up_log, t_pc, cwd_files, sources,
                   non_main_files, t_idx, typeset_log, tried_log, refs, t_result,
                   tr_file, tr_file0, munge_log, dirVars, resolverVars, A_results,
                   B_results, ignore_pdfonly, stems, failures, regressions, fixes,
                   n_preserves, n_ignored_pdfs>>

NextCompare == ScanWithdrawn \/ CompareStem \/ EmitSummary

SpecCompare == InitCompare /\ [][NextCompare]_vars

(***************************************************************************)
(* resolver_cache._resolve_references (SpecResolve)                        *)
(***************************************************************************)

BATCH_SIZE_LIMIT == 16

\* range(5) of resolve_batch
Attempts == 5

\* What the resolver service may answer to a request.
Responses ==
    {[status_code |-> 200, content |-> c] : c \in {"resolved", "malformed"}}
    \cup {[status_code |-> s, content |-> "error"] : s \in {404, 500, 502, 504}}

\* The same test for every server error
retried_on_5xx(response) == response.status_code >= 500

\* "if response.status_code in (502, 504): ... continue"
retried(response) == response.status_code \in {502, 504}

\* response.raise_for_status() raises HTTPError
raise_for_status(response) == response.status_code >= 400 /\ response.status_code < 600

InitResolve ==
    /\ ExtractorAside
    /\ CompareIdle
    /\ refstrings \in 0..MaxRefstrings
    /\ batch = 0
    /\ n_resolved = 0
    /\ _attempt = 0
    /\ requests_log = <<>>
    /\ r_pc = "next"
    /\ r_result = None

\* "for next_ref in refstrings": the reference joins the batch, and a full
\* batch is handed to resolve_batch (resolver_cache.py 105-112)
NextRef ==
    /\ r_pc = "next"
    /\ refstrings > 0
    /\ refstrings' = refstrings - 1
    /\ batch' = batch + 1
    /\ r_pc' = IF batch' >= BATCH_SIZE_LIMIT THEN "resolve_batch" ELSE "next"
    /\ _attempt' = 0
    /\ UNCHANGED <<sessVars, texVars, cmpVars, n_resolved, requests_log, r_result>>

\* After the loop: what is left in the batch is handed to resolve_batch,
\* or the generator finishes (resolver_cache.py 122-133)
LastBatch ==
    /\ r_pc = "next"
    /\ refstrings = 0
    /\ r_pc' = IF batch > 0 THEN "resolve_batch" ELSE "finished"
    /\ _attempt' = 0
    /\ UNCHANGED <<sessVars, texVars, cmpVars, refstrings, batch, n_resolved,
                   requests_log, r_result>>

\* What resolve_batch does with the response to its request number
\* _attempt + 1 (resolver_cache.py 86-100)
answered(response) ==
    IF retried(response)
    THEN IF _attempt + 1 < Attempts
         THEN /\ r_pc' = "resolve_batch"
              /\ _attempt' = _attempt + 1
              /\ UNCHANGED <<batch, n_resolved, r_result>>
         ELSE \* the loop is exhausted
              /\ r_pc' = "raised"
              /\ r_result' = IF raise_for_status(response) THEN "HTTPError"
                             ELSE "unreachable"
              /\ UNCHANGED <<batch, n_resolved, _attempt>>
    ELSE IF raise_for_status(response)
    THEN /\ r_pc' = "raised"
         /\ r_result' = "HTTPError"
         /\ UNCHANGED <<batch, n_resolved, _attempt>>
    ELSE IF response.content # "resolved"
    THEN \* json.loads or the subscript raises
         /\ r_pc' = "raised"
         /\ r_result' = "ValueError"
         /\ UNCHANGED <<batch, n_resolved, _attempt>>
    ELSE \* every info of the list is yielded, the batch is emptied
         /\ r_pc' = "next"
         /\ n_resolved' = n_resolved + batch
         /\ batch' = 0
         /\ UNCHANGED <<_attempt, r_result>>

\* requests.post inside resolve_batch, and what follows from the response
Post ==
    /\ r_pc = "resolve_batch"
    /\ \E response \in Responses :
           /\ requests_log' = Append(requests_log,
                                     [attempt |-> _attempt, references |-> batch,
                                      response |-> response])
           /\ answered(response)
    /\ UNCHANGED <<sessVars, texVars, cmpVars, refstrings>>

NextResolve == NextRef \/ LastBatch \/ Post

SpecResolve == InitResolve /\ [][NextResolve]_vars

(***************************************************************************)
(* _extract_references on a text of delimiter pairs (SpecRecover)          *)
(***************************************************************************)

InteriorChars == {"a", "-", "\n", " ", "<"}

\* The lists of n interiors that hold at most budget characters together
RECURSIVE InteriorLists(_, _)
InteriorLists(n, budget) ==
    IF n = 0 THEN {<<>>}
    ELSE UNION {{<<x>> \o rest : rest \in InteriorLists(n - 1, budget - Len(x))} :
                   x \in SeqsUpTo(InteriorChars, budget)}

\* How the pairs are laid out: what precedes each opening delimiter, what
\* every interior starts with, the form of the closing delimiter, and what
\* follows the last pair.
BlobStyles ==
    { [filler |-> <<>>, prefix |-> <<>>, closer |-> <<"<", "/", "r", ">">>,
       tail |-> <<>>],
      [filler |-> <<"x", "\n">>, prefix |-> <<>>,
       closer |-> <<"<", " ", "/", "r", "\n", ">">>, tail |-> <<"x">>],
      [filler |-> <<">", "/", "r", "<">>, prefix |-> <<"<", "r", ">">>,
       closer |-> <<"<", "/", "r", " ", ">">>, tail |-> <<"<", "r", ">", "a">>] }

\* The text: each interior between an opening and a closing delimiter
RECURSIVE BlobText(_, _)
BlobText(interiors, style) ==
    IF interiors = <<>> THEN style.tail
    ELSE style.filler \o <<"<", "r", ">">> \o style.prefix \o Head(interiors)
         \o style.closer \o BlobText(Tail(interiors), style)

InitRecover ==
    /\ SessionAside
    /\ ToolsIdle
    /\ submission \in {[interiors |-> q, style |-> st] :
                          q \in UNION {InteriorLists(n, MaxInterior) : n \in 0..MaxPairs},
                          st \in BlobStyles}
    /\ cwd_files = <<"paper", ".", "pdf", ".", "txt">>
                       :> BlobText(submission.interiors, submission.style)
    /\ sources = <<>>
    /\ t_pc = "recovering"
    /\ refs = <<>>
    /\ munge_log = <<>>

\* refs = _extract_references(text_path)
Recover ==
    /\ t_pc = "recovering"
    /\ refs' = _extract_references(cwd_files[<<"paper", ".", "pdf", ".", "txt">>])
    /\ t_pc' = "done"
    /\ UNCHANGED <<sessVars, submission, give_up_log, cwd_files, sources,
                   non_main_files, t_idx, typeset_log, tried_log, t_result, tr_file,
                   tr_file0, toolVars, munge_log, dirVars, call_log>>

NextRecover == Recover

SpecRecover == InitRecover /\ [][NextRecover]_vars

(***************************************************************************)
(* One call of _process_one_inner (SpecInner)                              *)
(***************************************************************************)

\* The session before process_one calls _process_one_inner for one of the
\* versions of the item; the call for the other version may have given up.
InitInner ==
    /\ input_stream = <<>>
    /\ output_stream = <<>>
    /\ n_inputs = 0
    /\ n_failures = 0
    /\ force \in BOOLEAN
    /\ no_pdf \in BOOLEAN
    /\ no_tex \in BOOLEAN
    /\ skip_refs \in BOOLEAN
    /\ pdf_backend \in {"perl", "grobid", "other"}
    /\ ft_exists \in FulltextSets
    /\ tr_state \in [pdf : TrStates, tex : TrStates]
    /\ _current_item = ItemStem
    /\ _failure_reason \in {None, "missing-fulltext"}
    /\ last_call = NoCall
    /\ spc = "item"
    /\ TexIdle

\* What the session holds after a call of _process_one_inner with result r
inner_called(c, r) ==
    /\ call_log' = <<[fn |-> "_process_one_inner", bibcode |-> c.bibcode,
                      item_ext |-> c.item_ext, is_pdf |-> c.is_pdf,
                      tr0 |-> tr_state, reason0 |-> _failure_reason, result |-> r]>>
    /\ tr_state' = r.tr
    /\ _failure_reason' = r.reason

\* pdf_result = self._process_one_inner(bibcode, item_stem, "pdf", is_pdf=True)
\* and tex_result = self._process_one_inner(bibcode, item_stem, tex_ext,
\* is_pdf=False), under the conditions process_one makes these calls
ProcessOneInner ==
    /\ spc = "item"
    /\ \E bibcode \in {None, "2021arXiv211101106G"}, is_pdf \in BOOLEAN :
         /\ IF is_pdf THEN first_existing(PdfExts) # None /\ ~no_pdf
            ELSE first_existing(TexExts) # None /\ ~no_tex
         /\ \E env \in IF is_pdf THEN PdfEnv ELSE TexEnv :
              LET item_ext == IF is_pdf THEN "pdf" ELSE first_existing(TexExts) IN
              inner_called([bibcode |-> bibcode, item_ext |-> item_ext,
                            is_pdf |-> is_pdf],
                           _process_one_inner(_failure_reason, tr_state, bibcode,
                                              item_ext, is_pdf, env))
    /\ spc' = "done"
    /\ UNCHANGED <<input_stream, output_stream, n_inputs, n_failures, force, no_pdf,
                   no_tex, skip_refs, pdf_backend, ft_exists, _current_item,
                   last_call, submission, give_up_log, t_pc, cwd_files, sources,
                   non_main_files, t_idx, typeset_log, tried_log, refs, t_result,
                   tr_file, tr_file0, toolVars, munge_log, dirVars>>

NextInner == ProcessOneInner

SpecInner == InitInner /\ [][NextInner]_vars

(***************************************************************************)
(* _split_on_delimited_prefix and tag_ref on short texts (SpecSplit)       *)
(***************************************************************************)

SplitChars == {"{", "}", "[", "]", " ", "k"}

DelimiterPairs == {<<"{", "}">>, <<"[", "]">>}

InitSplit ==
    /\ SessionAside
    /\ ToolsIdle
    /\ submission \in {[text |-> t, open |-> d[1], close |-> d[2]] :
                          t \in SeqsUpTo(SplitChars, MaxText), d \in DelimiterPairs}
    /\ cwd_files = <<>>
    /\ sources = <<>>
    /\ t_pc = "splitting"
    /\ refs = <<>>
    /\ munge_log = <<>>

\* The text the next call of _split_on_delimited_prefix is applied to: the
\* text drawn, then the remainder the call before returned.
NextSplitText ==
    IF call_log = <<>> THEN submission.text ELSE call_log[Len(call_log)].result[2]

\* left, text = _split_on_delimited_prefix(text, open, close)
SplitPrefix ==
    /\ t_pc = "splitting"
    /\ Len(call_log) < 2
    /\ call_log # <<>> => call_log[Len(call_log)].result # NoneT
    /\ call_log' = Append(call_log,
                          [fn |-> "_split_on_delimited_prefix",
                           text |-> NextSplitText,
                           result |-> _split_on_delimited_prefix(
                                          NextSplitText, submission.open,
                                          submission.close)])
    /\ t_pc' = IF Len(call_log) = 1 THEN "done" ELSE t_pc
    /\ UNCHANGED <<sessVars, submission, give_up_log, cwd_files, sources,
                   non_main_files, t_idx, typeset_log, tried_log, refs, t_result,
                   tr_file, tr_file0, toolVars, munge_log, dirVars>>

\* "if cur_ref: self.tag_ref(tag, cur_ref, ref_type, f_out)" with the text
\* as cur_ref
TagRef ==
    /\ t_pc = "splitting"
    /\ call_log = <<>>
    /\ submission.text # <<>>
    /\ \E ref_type \in {"bibitem", "reference", ""} :
         call_log' = <<[fn |-> "tag_ref", text |-> submission.text,
                        ref_type |-> ref_type,
                        result |-> tag_ref(<<"\\bibitem">>, submission.text,
                                           ref_type, "\\bibitem")]>>
    /\ t_pc' = "done"
    /\ UNCHANGED <<sessVars, submission, give_up_log, cwd_files, sources,
                   non_main_files, t_idx, typeset_log, tried_log, refs, t_result,
                   tr_file, tr_file0, toolVars, munge_log, dirVars>>

NextSplit == SplitPrefix \/ TagRef

SpecSplit == InitSplit /\ [][NextSplit]_vars

(***************************************************************************)
(* Claims                                                                  *)
(***************************************************************************)

\* A process_one call has run to its end event.
ProcessOneEnded == n_inputs > 0 /\ last_call.outcome # None

\* C1: process_one returns the path of the target reference file whenever
\* PDF-based or TeX-based extraction of the preprint succeeded (also when
\* the target was found up to date), "withdrawn" for a withdrawn item, and
\* None only when the item could not be processed.
C1_ProcessOneReturnsTargetPath ==
    n_inputs > 0 =>
        LET c == last_call
            withdrawn == c.pdf_result = "withdrawn" \/ c.tex_result = "withdrawn"
        IN IF withdrawn THEN c.ret = "withdrawn"
           ELSE IF c.pdf_result # None THEN c.ret = tr_path_pdf
           ELSE IF c.tex_result # None THEN c.ret = tr_path_tex
           ELSE c.ret = None

\* ---- the TeX pipeline (SpecTex) ----

\* extract_references has ended, by a return or by an exception.
TexDone == t_pc = "done"

\* pdflatex was run, and every run of the tools rendered the munged source
\* faithfully.
FaithfulToolchain ==
    /\ typeset_log # <<>>
    /\ \A i \in DOMAIN typeset_log : typeset_log[i].kind = "faithful"

\* The target file of the end-to-end scenario.
SmithTargetLines == << <<"%", "R", " ", "2020xxxx">>, <<"%", "Z">>, SmithText >>

\* The single-file .tex submission of the end-to-end scenario, in one of
\* the given layouts, processed with a faithful toolchain with the writing
\* of references enabled.
SmithScenario(layouts) ==
    /\ TexDone
    /\ submission.ft = PaperTex
    /\ submission.content \in layouts
    /\ submission.bibcode = "2020xxxx"
    /\ ~skip_refs
    /\ FaithfulToolchain

\* C2 (as stated): for the single-file .tex submission whose bibliography is
\* \begin{thebibliography}{99}\bibitem{a} Smith, J. 2020.\end{thebibliography}
\* with bibcode 2020xxxx and a faithful toolchain, the pipeline produces a
\* target file whose lines are exactly "%R 2020xxxx", "%Z", "Smith, J. 2020.",
\* however the opening line, the entry and the end marker are distributed
\* over physical lines, all on one line included.
C2_AnyLayoutYieldsTarget ==
    SmithScenario(SmithBibs) =>
        tr_file = [exists |-> TRUE, lines |-> SmithTargetLines]

\* C2 (amended): the same holds when the entry starts on a physical line
\* after the line that opens the bibliography environment; the end marker
\* may share the entry's line or stand on its own.
C2_EntryAfterOpeningLineYieldsTarget ==
    SmithScenario({SmithBib(TRUE, FALSE), SmithBib(TRUE, TRUE)}) =>
        /\ tr_file = [exists |-> TRUE, lines |-> SmithTargetLines]
        /\ t_result = ResultInt(1)

C2_Witness ==
    /\ SmithScenario({SmithBib(TRUE, FALSE)})
    /\ tr_file0.exists
    /\ tr_file.lines = SmithTargetLines
    /\ munge_log = <<1>>

\* C3: every target file written by the TeX pipeline has "%R <bibcode>" as
\* line 1, "%Z" as line 2, and then one recovered reference string per line
\* in recovery order with no blank line among them, for every list of
\* recovered strings the pipeline reaches the write step with.
C3_WrittenFileFormat ==
    (TexDone /\ tr_file # tr_file0) =>
        /\ tr_file.exists
        /\ Len(tr_file.lines) = Len(refs) + 2
        /\ tr_file.lines[1] = <<"%", "R", " ", submission.bibcode>>
        /\ tr_file.lines[2] = <<"%", "Z">>
        /\ \A i \in DOMAIN refs : tr_file.lines[i + 2] = refs[i]
        /\ \A i \in 3..Len(tr_file.lines) : tr_file.lines[i] # <<>>

\* C4: when extract_references returns a nonnegative integer n, exactly n
\* reference strings were recovered and, with skip_refs false, tr_path holds
\* exactly those n strings after its two header lines, while with skip_refs
\* true tr_path is neither created nor modified; every other return value
\* is a negative integer or the string "withdrawn".
C4_ReturnValueContract ==
    (TexDone /\ t_result.kind # "raise") =>
        IF t_result.kind = "int" /\ t_result.n >= 0
        THEN /\ tried_log # <<>>
             /\ refs = tried_log[Len(tried_log)].refs
             /\ Len(refs) = t_result.n
             /\ IF skip_refs
                THEN tr_file = tr_file0
                ELSE /\ tr_file.exists
                     /\ Len(tr_file.lines) = t_result.n + 2
                     /\ SubSeq(tr_file.lines, 3, t_result.n + 2) = refs
        ELSE \/ t_result.kind = "int" /\ t_result.n < 0
             \/ t_result.kind = "str" /\ t_result.s = "withdrawn"

C4_Witness ==
    /\ TexDone
    /\ t_result = ResultInt(2)
    /\ ~skip_refs
    /\ tr_file0.exists
    /\ Len(tr_file.lines) = 4

\* The candidate of sources that has the given path is flagged ignore.
IgnoredPath(path) ==
    \E i \in DOMAIN sources : sources[i].path = path /\ sources[i].ignore

\* C5: TexSources.extract_refs tries candidates in descending score order,
\* never invokes the typesetter for a candidate whose ignore flag is set,
\* returns the recovered sequence of the first candidate whose recovery is
\* non-empty without trying any later candidate, and when every candidate
\* yields an empty sequence records the give-up reason for "no candidate
\* worked" and the submission result is Failure.
C5_ExtractRefsOrder ==
    /\ \A i, j \in DOMAIN sources : i < j => sources[i].score >= sources[j].score
    /\ Len(tried_log) <= Len(sources)
    /\ \A i \in DOMAIN tried_log : tried_log[i].path = sources[i].path
    /\ \A i \in DOMAIN typeset_log : ~IgnoredPath(typeset_log[i].path)
    /\ \A i \in DOMAIN tried_log :
           i < Len(tried_log) => tried_log[i].refs = <<>> /\ ~tried_log[i].raised
    /\ refs # <<>> =>
           /\ t_pc \in {"extracted", "done"}
           /\ refs = tried_log[Len(tried_log)].refs
    /\ (t_pc \in {"extracted", "done"} /\ refs = <<>>
        /\ t_result.kind \in {"pending", "int"}) =>
           /\ Len(tried_log) = Len(sources)
           /\ give_up_log = <<"no-main-file-worked">>
           /\ _failure_reason \in {"no-main-file-worked", "missing-fulltext"}
           /\ (_failure_reason = "missing-fulltext" => "missing-fulltext" \notin Range(give_up_log))
           /\ TexDone => t_result = ResultInt(-1)

C5_Witness ==
    /\ TexDone
    /\ Len(sources) = 3
    /\ Len(tried_log) = 2
    /\ IgnoredPath(tried_log[1].path)
    /\ refs # <<>>
    /\ Len(typeset_log) = 1

\* The unpacked content is exactly one file, a candidate, that holds only
\* an auto-ignore marker.
OnlyAutoIgnoreFile ==
    /\ t_pc \notin {"start", "unpacked"}
    /\ unpack(submission) \in {(n :> AutoIgnoreOnly) : n \in DOMAIN unpack(submission)}
    /\ Len(sources) = 1

\* C6: a submission whose unpacked content is exactly one candidate file
\* containing only an auto-ignore marker yields the Withdrawn outcome
\* (extract_references returns "withdrawn"), not Failure, and no typesetting
\* is attempted and no target file is written for it.
C6_OnlyAutoIgnoreIsWithdrawn ==
    OnlyAutoIgnoreFile =>
        /\ typeset_log = <<>>
        /\ tried_log = <<>>
        /\ tr_file = tr_file0
        /\ t_pc \in {"scanned", "done"}
        /\ TexDone => t_result = ResultStr("withdrawn")

C6_Witness ==
    /\ OnlyAutoIgnoreFile
    /\ TexDone
    /\ t_result = ResultStr("withdrawn")
    /\ sources[1].ignore
    /\ ~tr_file.exists

\* Some file of the submission holds the line \input{<name>}.
InputDirective(name) ==
    \E f \in DOMAIN unpack(submission) :
        <<"\\input", "{">> \o name \o <<"}">> \in Range(unpack(submission)[f])

\* C7: after TexSources.scan_cwd, if any scanned file contains an
\* \input{other} directive, the candidate for the file other.tex in the
\* working directory has score at most -1 (-2 when the directive names the
\* file exactly, -1 when it names the file without extension), whatever
\* positive score its own content earned.
C7_InputDirectiveForcesScore ==
    t_pc = "scanned" =>
        \A i \in DOMAIN sources :
            relname(sources[i].path) = OtherTex =>
                /\ InputDirective(OtherTex) => sources[i].score = -2
                /\ (InputDirective(<<"other">>) /\ ~InputDirective(OtherTex)) =>
                       sources[i].score = -1

\* The index of the candidate for the file called name, 0 if there is none.
CandidateIndex(name) ==
    IF \E i \in DOMAIN sources : relname(sources[i].path) = name
    THEN CHOOSE i \in DOMAIN sources : relname(sources[i].path) = name
    ELSE 0

HasBeginDocumentLine(lines) ==
    \E k \in DOMAIN lines : \E j \in DOMAIN lines[k] :
        BeginEnvAt(lines[k], j, {"document"}) # 0

HasBibliographyOpeningLine(lines) ==
    \E k \in DOMAIN lines : \E j \in DOMAIN lines[k] :
        BeginEnvAt(lines[k], j, BibEnvs) # 0

\* The submission is two files: p, whose basename is in the penalty table,
\* and d, which holds a \begin{document} line and a line that opens a
\* bibliography environment; scan_cwd has ranked them.
PenalizedAndDocument(p, d) ==
    /\ t_pc = "scanned"
    /\ DOMAIN cwd_files = {p, d}
    /\ p # d
    /\ _BASENAME_SCORE_DELTAS(rsplit_dot(p)) < 0
    /\ HasBeginDocumentLine(cwd_files[d])
    /\ HasBibliographyOpeningLine(cwd_files[d])

\* The content of the file earns a point of score on some line.
EarnsPoints(lines) ==
    \E k \in DOMAIN lines :
        \/ _LATEX_DOCCLASS_REGEXES(lines[k])
        \/ _TEX_MAIN_FILE_REGEXES(lines[k])
        \/ shorttitle_match(lines[k]) # NoneT

C9_SecondMungeSameCount ==
    Len(munge_log) >= 2 => munge_log[2] = munge_log[1]

\* ---- reference recovery (SpecRecover) ----

\* The elements of x at the indices of K, in order
PickIndices(x, K) ==
    [j \in 1..Cardinality(K) |->
        x[CHOOSE i \in K : Cardinality({k \in K : k <= i}) = j]]

\* x with every hyphen-newline sequence removed
WithoutHyphenNewline(x) ==
    PickIndices(x, {i \in DOMAIN x :
                       /\ ~(x[i] = "-" /\ i < Len(x) /\ x[i + 1] = "\n")
                       /\ ~(x[i] = "\n" /\ i > 1 /\ x[i - 1] = "-")})

\* x with leading and trailing whitespace dropped and every other run of
\* whitespace turned into one space
WhitespaceCollapsed(x) ==
    LET K == {i \in DOMAIN x :
                 \/ ~IsSpace(x[i])
                 \/ /\ i > 1
                    /\ ~IsSpace(x[i - 1])
                    /\ \E j \in (i + 1)..Len(x) : ~IsSpace(x[j])}
        y == PickIndices(x, K)
    IN [j \in DOMAIN y |-> IF IsSpace(y[j]) THEN " " ELSE y[j]]

CleanedInterior(x) == WhitespaceCollapsed(WithoutHyphenNewline(x))

\* C10: for a text containing N well-formed opening/closing delimiter pairs
\* with arbitrary interior text (not containing the closing delimiter),
\* _extract_references returns exactly N strings in order of appearance,
\* each equal to its interior with every hyphen-newline sequence removed,
\* whitespace runs collapsed to single spaces and leading/trailing
\* whitespace stripped.
C10_RecoversEachInteriorCleaned ==
    t_pc = "done" =>
        /\ Len(refs) = Len(submission.interiors)
        /\ \A i \in DOMAIN refs :
               refs[i] = CleanedInterior(submission.style.prefix \o submission.interiors[i])

C10_Witness ==
    /\ t_pc = "done"
    /\ submission.interiors = << <<"a", "-", "\n">>, <<>> >>
    /\ submission.style.prefix # <<>>
    /\ refs = << <<"<", "r", ">", "a">>, <<"<", "r", ">">> >>

\* Number of occurrences of ch in text[a..b]
Count(text, ch, a, b) == Cardinality({k \in a..b : k \in DOMAIN text /\ text[k] = ch})

\* The index at which a properly nested delimited prefix of text ends: the
\* first character that is no whitespace is the opener, and the index is
\* that of the closer that balances it.  Empty when there is no such prefix.
BalancedPrefixEnds(text, open, close) ==
    LET i == skip_spaces(text, 1) IN
    {j \in (i + 1)..Len(text) :
        /\ text[i] = open
        /\ Count(text, open, i, j) = Count(text, close, i, j)
        /\ \A m \in i..(j - 1) : Count(text, open, i, m) > Count(text, close, i, m)}

\* text has no leading delimiter: it is empty or all whitespace, or its first
\* character that is no whitespace is not the opener
NoLeadingDelimiter(text, open) ==
    skip_spaces(text, 1) > Len(text) \/ text[skip_spaces(text, 1)] # open

\* C11: _split_on_delimited_prefix applied to a text that starts, after
\* optional whitespace, with a properly nested delimited prefix returns the
\* prefix through its balancing closer and the remainder; applied again to
\* that remainder, when it has no leading delimiter, it returns the empty
\* string and the remainder unchanged.
C11_SplitTwice ==
    \A j \in BalancedPrefixEnds(submission.text, submission.open, submission.close) :
        LET text == submission.text
            remainder == SubSeq(text, j + 1, Len(text))
        IN
        /\ Len(call_log) >= 1 /\ call_log[1].fn = "_split_on_delimited_prefix"
               => call_log[1].result = <<SubSeq(text, 1, j), remainder>>
        /\ Len(call_log) >= 2 /\ NoLeadingDelimiter(remainder, submission.open)
               => call_log[2].result = << <<>>, remainder >>

\* The candidate for the file of path as the probing loop of scan_cwd made
\* it, before any default was applied
Probed(path) == _probe_one_source(relname(path), cwd_files[relname(path)], {})[1]

\* The first value of the list vals that is not empty, else dflt
FirstFilled(vals, empty, dflt) ==
    LET N == {i \in DOMAIN vals : vals[i] # empty} IN
    IF N = {} THEN dflt ELSE vals[Min(N)]

\* The candidates before the defaults were applied, in the order in which
\* the directory scan met their files
ProbedInScanOrder ==
    LET order == call_log[Len(call_log)].result
        IsCandidate(name) == \E k \in DOMAIN sources : relname(sources[k].path) = name
        names == SelectSeq(order, IsCandidate)
    IN [i \in DOMAIN names |-> Probed(_find_files_cwd(names[i]))]

\* ... and in the order of the ranked list
ProbedInRankOrder == [i \in DOMAIN sources |-> Probed(sources[i].path)]

\* Every candidate kept the macro name and the title it had; an empty field
\* holds the first value that is not empty along the list probed.
DefaultsFilledAlong(probed) ==
    \A k \in DOMAIN sources :
        LET pre == Probed(sources[k].path) IN
        /\ sources[k].bibitem =
               IF pre.bibitem # "" THEN pre.bibitem
               ELSE FirstFilled([i \in DOMAIN probed |-> probed[i].bibitem], "",
                                "\\bibitem")
        /\ sources[k].title =
               IF pre.title # <<>> THEN pre.title
               ELSE FirstFilled([i \in DOMAIN probed |-> probed[i].title], <<>>,
                                NoneTitle)

\* C12 as stated: the default-fill step of scan_cwd changes no macro name
\* or title a candidate already has, and fills an empty field with the first
\* value that is not empty among the candidates in scan order ("bibitem" for
\* the macro name if no candidate has one).
C12_DefaultsFromScanOrder ==
    t_pc = "scanned" => DefaultsFilledAlong(ProbedInScanOrder)

\* C12, amended: ... with the first value that is not empty among the
\* candidates in the order of the ranked list (descending score, ties in
\* scan order); a title stays unset if no candidate has one.
C12_DefaultsFromRankOrder ==
    t_pc = "scanned" => DefaultsFilledAlong(ProbedInRankOrder)

\* Three candidates: one without a macro name and a title was filled from
\* the first of two others that have different ones, and those kept theirs.
C12_Witness ==
    /\ t_pc = "scanned"
    /\ Len(sources) = 3
    /\ \E k, m, n \in DOMAIN sources :
         /\ Probed(sources[k].path).bibitem = ""
         /\ Probed(sources[k].path).title = <<>>
         /\ m < n
         /\ Probed(sources[m].path).bibitem \notin {"", Probed(sources[n].path).bibitem}
         /\ Probed(sources[n].path).bibitem # ""
         /\ Probed(sources[m].path).title \notin {<<>>, Probed(sources[n].path).title}
         /\ Probed(sources[n].path).title # <<>>
         /\ sources[k].bibitem = sources[m].bibitem
         /\ sources[k].title = sources[m].title
         /\ sources[n].bibitem # sources[m].bibitem
         /\ sources[n].title # sources[m].title

\* ---- the end of an item (SpecSession) ----

\* C13: once a failure reason has been recorded for the item being
\* processed no later step replaces it: the reason reported in the item's end
\* event is the first reason recorded while the item was processed.
C13_FirstReasonWins ==
    ProcessOneEnded /\ last_call.given_up # None
        => last_call.failwhy = last_call.given_up

\* References were extracted for the item of the last record: it is not
\* withdrawn, and the PDF leg or the TeX leg returned its target path.
RefsExtracted ==
    /\ last_call.pdf_result # "withdrawn"
    /\ last_call.tex_result # "withdrawn"
    /\ last_call.pdf_result # None \/ last_call.tex_result # None

\* C18: for every non-blank record read by process exactly one line is
\* written to the output, in input order, and the line carries the target
\* reference path as its second item if and only if references were
\* extracted for the item; withdrawn and failed items get the fulltext path
\* alone.
C18_OneLinePerRecord ==
    /\ Len(output_stream) = n_inputs
    /\ \A i \in DOMAIN output_stream :
         /\ Len(output_stream[i]) \in {1, 2}
         /\ output_stream[i][1] = ItemStem
    /\ n_inputs > 0 =>
         LET line == output_stream[n_inputs] IN
         /\ Len(line) = 2 <=> RefsExtracted
         /\ Len(line) = 2 => line[2] \in {tr_path_pdf, tr_path_tex}

\* C19: an item whose outcome is withdrawn is never treated as a failure:
\* process does not count it among the items that could not be processed, and
\* process_one ends it with no failure reason recorded for it, neither a
\* give-up reason nor the "failed without a logged reason" fallback.
C19_WithdrawnIsNoFailure ==
    [][(n_inputs' = n_inputs + 1 /\ last_call'.outcome = "withdrawn")
           => /\ n_failures' = n_failures
              /\ last_call'.given_up = None
              /\ ~last_call'.uncaptured]_vars

\* ---- errors and timeouts of the TeX pipeline (SpecTex) ----

\* extract_references has ended after the candidates were scanned, and the
\* submission was not found withdrawn.
EndedAfterScan ==
    /\ TexDone
    /\ Len(call_log) > 0
    /\ t_result # ResultStr("withdrawn")

\* Some candidate tried as main file yielded references.
SomeCandidateYielded == \E i \in DOMAIN tried_log : tried_log[i].refs # <<>>

\* C14: an error raised while munging or compiling one candidate, a failing
\* text extraction on its output artifact included, is confined to that
\* candidate: the remaining candidates are still munged and tried as main
\* file, and the submission fails only if none of them yields references.
C14_ErrorsAreConfined ==
    EndedAfterScan =>
        /\ Len(munge_log) = Len(sources)
        /\ SomeCandidateYielded \/ Len(tried_log) = Len(sources)
        /\ t_result.kind = "int"
        /\ t_result.n < 0 <=> ~SomeCandidateYielded

\* The index of the candidate of path in the ranked list
SourceIndex(path) == CHOOSE k \in DOMAIN sources : sources[k].path = path

\* Candidate k was not compiled more than once.
CompiledOnce(k) ==
    Cardinality({i \in DOMAIN typeset_log : typeset_log[i].path = sources[k].path}) <= 1

\* After candidate k the driver went on to the next candidate, if there is
\* one, by the time extract_references ended.
ProceededBeyond(k) ==
    TexDone /\ k < Len(sources) => Len(tried_log) > k

\* C16 as stated: when the pdflatex run for a candidate times out, that
\* candidate yields no references, it is not compiled again, and the driver
\* proceeds to the next candidate.
C16_TimeoutYieldsNothing ==
    \A i \in DOMAIN typeset_log :
        typeset_log[i].exit = "timeout" =>
            LET k == SourceIndex(typeset_log[i].path) IN
            /\ tried_log[k].refs = <<>>
            /\ ~tried_log[k].raised
            /\ CompiledOnce(k)
            /\ ProceededBeyond(k)

\* C16, amended: when the pdflatex run for a candidate times out, the
\* candidate is not compiled again and the driver still looks for its output
\* file.  If there is none, or an empty one, the candidate yields no
\* references and the driver proceeds to the next candidate; if there is one,
\* text extraction is run on it as after a completed run, and the candidate
\* yields the references recovered from that text.
C16_TimeoutThenOutputDecides ==
    \A i \in DOMAIN typeset_log :
        typeset_log[i].exit = "timeout" =>
            LET k == SourceIndex(typeset_log[i].path) IN
            /\ CompiledOnce(k)
            /\ typeset_log[i].kind \in {"no_output", "empty_output"}
                   => /\ tried_log[k].refs = <<>>
                      /\ ~tried_log[k].raised
                      /\ ProceededBeyond(k)
            /\ typeset_log[i].kind = "text"
                   => /\ ~tried_log[k].raised
                      /\ \E t \in ArbitraryTexts :
                             tried_log[k].refs = _extract_references(t)
                      /\ tried_log[k].refs = <<>> => ProceededBeyond(k)

\* The pdflatex run of the first of several candidates timed out and left no
\* output; the second candidate was compiled, and references came of it.
C16_Witness ==
    /\ TexDone
    /\ Len(typeset_log) = 2
    /\ typeset_log[1].exit = "timeout"
    /\ typeset_log[1].kind = "no_output"
    /\ typeset_log[1].path = sources[1].path
    /\ typeset_log[2].path = sources[2].path
    /\ tried_log[2].refs # <<>>
    /\ t_result.kind = "int" /\ t_result.n > 0

\* C17: whenever extract_references ends, by return or by exception, the
\* temporary working directory it created for the submission no longer
\* exists, and the current directory of the process is the one that was
\* current when it was called.
C17_WorkdirReclaimed ==
    TexDone =>
        /\ os_cwd = "orig_dir"
        /\ tmpdir = IF workdir = None THEN "removed" ELSE "none"

\* extract_references made a temporary directory, worked in it, and ended by
\* an exception while a candidate was tried as main file.
C17_Witness ==
    /\ TexDone
    /\ workdir = None
    /\ tmpdir = "removed"
    /\ cwd_files # <<>>
    /\ tried_log # <<>>
    /\ t_result = ResultRaised

\* ---- tag_ref on degenerate entry texts (SpecSplit) ----

\* The leading delimited prefix of text is malformed: its opener is never
\* balanced by a closer.
MalformedPrefix(text, open, close) ==
    /\ ~NoLeadingDelimiter(text, open)
    /\ BalancedPrefixEnds(text, open, close) = {}

\* The entry texts C15 is about, for an entry of type ref_type
DegenerateEntry(text, ref_type) ==
    \/ skip_spaces(text, 1) > Len(text)
    \/ /\ ref_type = "bibitem"
       /\ MalformedPrefix(text, "[", "]") \/ MalformedPrefix(text, "{", "}")
    \/ /\ ref_type = "reference"
       /\ MalformedPrefix(text, "{", "}")

\* C15: prefix stripping never raises: for an entry text whose leading
\* delimited prefix is malformed, or that is empty or all whitespace, tag_ref
\* strips nothing and still writes the entry wrapped in the opening and the
\* closing marker.
C15_TagRefNeverRaises ==
    Len(call_log) = 1 /\ call_log[1].fn = "tag_ref" =>
        LET c == call_log[1] IN
        /\ c.result # NoneT
        /\ DegenerateEntry(c.text, c.ref_type) =>
               /\ c.result[1] = <<"\\bibitem", " ">>
               /\ c.result[Len(c.result)] =
                      OpenMarker \o <<" ">> \o emph_all(c.text, 1) \o <<" ">>
                          \o _REF_EXTRA_CLOSING

\* ---- the up-to-date test of _process_one_inner (SpecInner) ----

\* _process_one_inner was called for a version of the item whose fulltext
\* source exists.
InnerCalled ==
    /\ Len(call_log) = 1
    /\ call_log[1].fn = "_process_one_inner"
    /\ call_log[1].item_ext \in ft_exists

\* The target file of the call existed, was not older than the fulltext
\* source, and force is false.
UpToDateUnforced ==
    /\ call_log[1].tr0[IF call_log[1].is_pdf THEN "pdf" ELSE "tex"] = "current"
    /\ ~force

\* The call ran no extractor, left the target files as they were and
\* returned the path of its target file.
SkippedExtraction ==
    /\ ~call_log[1].result.ran
    /\ call_log[1].result.tr = call_log[1].tr0
    /\ call_log[1].result.ret =
           IF call_log[1].is_pdf THEN tr_path_pdf ELSE tr_path_tex

MungedOnce == t_pc = "done" /\ t_result.kind = "int"

\* The physical lines of the reference section of the submission's file.
SectionLines == munge_start(submission.ft, submission.content)[2]

\* The file as munge_refs left it.
MungedFile == cwd_files[submission.ft]

\* The tagged entries of a munged file: the lines that open with the
\* opening marker, without their whitespace.
TaggedEntries(out) ==
    LET Tagged(line) == StartsWithAt(line, 1, OpenMarker)
        Words(line) == SelectSeq(line, LAMBDA c : ~IsSpace(c))
        entries == SelectSeq(out, Tagged)
    IN [k \in 1..Len(entries) |-> Words(entries[k])]

\* A line cut before every \bibitem, \reference or \end{ that stands after
\* its first character.
RECURSIVE OwnLines(_)
OwnLines(line) ==
    IF _FORCED_NEWLINE_REGEX(line) = 0 THEN <<line>>
    ELSE <<SubSeq(line, 1, _FORCED_NEWLINE_REGEX(line) - 1)>>
         \o OwnLines(SubSeq(line, _FORCED_NEWLINE_REGEX(line), Len(line)))

\* The file with each of these occurrences moved to the start of a line of
\* its own.
RECURSIVE EachOnOwnLine(_)
EachOnOwnLine(lines) ==
    IF lines = <<>> THEN <<>>
    ELSE OwnLines(Head(lines)) \o EachOnOwnLine(Tail(lines))

\* Some line of the section holds such an occurrence.
HasForcedSplit == \E k \in DOMAIN SectionLines : _FORCED_NEWLINE_REGEX(SectionLines[k]) # 0

\* C21: in the reference section, text deferred by a forced split at a
\* \bibitem, \reference or \end{ after the first character of a line is
\* processed as if it were its own physical line: munging the file gives the
\* same tagged entries as munging the file with every such occurrence moved
\* to the start of its own line, however many physical lines follow it.
C21_ForcedSplitIsOwnLine ==
    MungedOnce =>
        LET own == munge_refs(sources[1].path, EachOnOwnLine(submission.content),
                              sources[1].bibitem)
        IN ~own.raised => TaggedEntries(MungedFile) = TaggedEntries(own.out)

\* The lines of the section up to its end marker line, if it has one.
BeforeEndMarker(k) == \A j \in 1..(k - 1) : ~_END_REFS_REGEX(SectionLines[j])

\* Line k of the section holds a "%" after its first character, and the
\* first "%" of the line starts a comment: it neither follows a backslash
\* nor is followed by two hex digits.
CommentAfterText(k) ==
    LET line == SectionLines[k] IN
    /\ BeforeEndMarker(k)
    /\ PercentIndex(line) > 1
    /\ ~HexEncodedAt(line, PercentIndex(line))
    /\ line[PercentIndex(line) - 1] # "\\"

\* The words of a text
WordsOf(text) == SelectSeq(text, LAMBDA c : ~IsSpace(c))

\* The last word that line k holds before its comment is part of a tagged
\* entry of the munged file.
LeadingTextSurvives(k) ==
    LET line == SectionLines[k]
        before == WordsOf(SubSeq(line, 1, PercentIndex(line) - 1))
    IN \E e \in Range(TaggedEntries(MungedFile)) :
           before[Len(before)] \in Range(e)

\* What line k holds after the "%" is in the munged file.
TrailingTextSurvives(k) ==
    LET line == SectionLines[k]
        after == WordsOf(SubSeq(line, PercentIndex(line) + 1, Len(line)))
    IN \A w \in Range(after) : \E n \in DOMAIN MungedFile : w \in Range(MungedFile[n])

\* C22: for a reference-section line holding a comment-starting "%" after
\* its first character, the text before the "%" survives into the entry
\* being accumulated and the remainder of the line after the "%" is deferred
\* and prepended to the next physical line, so that no trailing content of
\* the line is lost, also when the line is the last of the section or file.
C22_CommentLosesNothing ==
    MungedOnce =>
        \A k \in DOMAIN SectionLines :
            CommentAfterText(k) => LeadingTextSurvives(k) /\ TrailingTextSurvives(k)

\* The "%" at index i of line starts a comment as the specification has it:
\* it neither follows a backslash nor is followed by two hex digits.
StartsComment(line, i) ==
    /\ line[i] = "%"
    /\ (i = 1 \/ line[i - 1] # "\\")
    /\ ~HexEncodedAt(line, i)

\* No tagged entry of the munged file holds the start of a comment.
NoCommentInEntries ==
    \A n \in DOMAIN MungedFile :
        StartsWithAt(MungedFile[n], 1, OpenMarker) =>
            \A i \in DOMAIN MungedFile[n] : ~StartsComment(MungedFile[n], i)

\* The file without the lines that start with a comment
WithoutCommentLines(lines) ==
    SelectSeq(lines, LAMBDA line : ~(line # <<>> /\ StartsComment(line, 1)))

\* C23: in the reference section every "%" that is neither preceded by a
\* backslash nor followed by two hex digits is treated as starting a
\* comment, wherever it stands on the line and whatever other "%" precede it
\* on that line (so no tagged entry holds one), and a line that starts with
\* such a "%" is dropped entirely (the entries are those of the file without
\* that line).
C23_EveryCommentIsRemoved ==
    MungedOnce =>
        /\ NoCommentInEntries
        /\ LET bare == munge_refs(sources[1].path,
                                  WithoutCommentLines(submission.content),
                                  sources[1].bibitem)
           IN ~bare.raised => TaggedEntries(MungedFile) = TaggedEntries(bare.out)

\* The section has an end marker line; EndMarkerIndex is the first one.
HasEndMarker == \E k \in DOMAIN SectionLines : _END_REFS_REGEX(SectionLines[k])

EndMarkerIndex == Min({k \in DOMAIN SectionLines : _END_REFS_REGEX(SectionLines[k])})

\* The last n lines of a file
LastLines(lines, n) == SubSeq(lines, Len(lines) - n + 1, Len(lines))

\* An entry is in progress when the end marker line is reached: a line
\* before it starts an item and holds text behind the macro.
EntryInProgress ==
    \E j \in 1..(EndMarkerIndex - 1) :
        /\ start_item(SectionLines[j], sources[1].bibitem) # 0
        /\ start_item(SectionLines[j], sources[1].bibitem) < Len(SectionLines[j])

\* C24: on reaching the end-of-environment marker line, the munger first
\* writes the entry in progress (if any) as a tagged entry, then writes the
\* end marker line unchanged, and from then on tags nothing: every later
\* line of the file is copied to the output verbatim.
C24_EndMarkerStopsTagging ==
    (MungedOnce /\ HasEndMarker) =>
        LET tail == SubSeq(SectionLines, EndMarkerIndex, Len(SectionLines))
            head == SubSeq(MungedFile, 1, Len(MungedFile) - Len(tail))
        IN /\ Len(MungedFile) >= Len(tail)
           /\ LastLines(MungedFile, Len(tail)) = tail
           /\ EntryInProgress =>
                  /\ head # <<>>
                  /\ StartsWithAt(head[Len(head)], 1, OpenMarker)

\* The reference-introducing macros that line k of the section holds before
\* its comment, if it has one: the entries the line starts.
EntriesStartedOn(k) ==
    LET line == SectionLines[k]
        C == {i \in DOMAIN line : StartsComment(line, i)}
        stop == IF C = {} THEN Len(line) + 1 ELSE Min(C)
    IN Cardinality({i \in 1..(stop - 1) :
                       Lower(line[i]) \in ItemMacros \cup {Lower(sources[1].bibitem)}})

\* The entries started in the section, up to its end marker line.
EntriesStarted ==
    SumSeq([k \in DOMAIN SectionLines |->
               IF BeforeEndMarker(k) /\ ~_END_REFS_REGEX(SectionLines[k])
               THEN EntriesStartedOn(k) ELSE 0])

\* The closing markers of the munged file
ClosingMarkers ==
    SumSeq([n \in DOMAIN MungedFile |->
               IF EndsWith(MungedFile[n], _REF_EXTRA_CLOSING) THEN 1 ELSE 0])

\* C25: the count returned by TexSourceItem.munge_refs equals the number of
\* tagged entries (pairs of opening and closing marker) written into the
\* rewritten file, and every entry started by a reference-introducing macro
\* is written exactly once: before the next entry starts, at the end
\* marker, or at end of file.
C25_CountIsEntriesWritten ==
    MungedOnce =>
        /\ munge_log[1] = Len(TaggedEntries(MungedFile))
        /\ munge_log[1] = ClosingMarkers
        /\ munge_log[1] = EntriesStarted

\* Token a is directly followed by token b somewhere in line.
DirectlyFollows(line, a, b) ==
    \E i \in 1..(Len(line) - 1) : line[i] = a /\ line[i + 1] = b

\* Line k + 1 of the section continues the entry that line k belongs to:
\* line k starts an item and ends in a word, line k + 1 starts with a word
\* and neither starts an item nor ends the section, and neither holds a
\* comment or a forced split.
ContinuesEntry(k) ==
    LET a == SectionLines[k]
        b == SectionLines[k + 1]
    IN /\ BeforeEndMarker(k + 1)
       /\ start_item(a, sources[1].bibitem) # 0
       /\ ~IsSpace(a[Len(a)])
       /\ b # <<>>
       /\ ~IsSpace(b[1])
       /\ start_item(b, sources[1].bibitem) = 0
       /\ ~_END_REFS_REGEX(b)
       /\ \A l \in {a, b} : PercentIndex(l) = 0 /\ _FORCED_NEWLINE_REGEX(l) = 0

\* C26: when an entry spans several physical lines, the last word of one
\* line and the first word of the next stay separated by whitespace in the
\* tagged body: the lines are joined with a line break or a space, never
\* directly concatenated.
C26_LinesJoinedWithWhitespace ==
    MungedOnce =>
        \A k \in 1..(Len(SectionLines) - 1) :
            ContinuesEntry(k) =>
                \A n \in DOMAIN MungedFile :
                    ~DirectlyFollows(MungedFile[n],
                                     SectionLines[k][Len(SectionLines[k])],
                                     SectionLines[k + 1][1])

\* What a complete run of munge_refs makes of the submission's file
CompleteMunge ==
    munge_refs(sources[1].path, submission.content, sources[1].bibitem)

\* The candidate path holds its complete original content or its complete
\* munged content.
CandidateIsWhole ==
    \/ cwd_files[submission.ft] = submission.content
    \/ ~CompleteMunge.raised /\ cwd_files[submission.ft] = CompleteMunge.out

\* munge_refs has ended, by return or by exception.
MungeEnded == t_pc = "done"

\* The working directory holds a partially written file: one that is
\* neither the original nor the complete munged content.
PartialFileLeft ==
    \E n \in DOMAIN cwd_files :
        /\ cwd_files[n] # submission.content
        /\ CompleteMunge.raised \/ cwd_files[n] # CompleteMunge.out

\* C27 as stated: at every point during munging, including when munging is
\* interrupted or raises, each candidate path holds either its complete
\* original content or its complete munged content, and once munging has
\* ended (normally or by exception) the working tree contains no partially
\* written file.
C27_NoPartialFileAnywhere ==
    /\ CandidateIsWhole
    /\ MungeEnded => ~PartialFileLeft

\* C27, amended: the candidate path holds its complete original or its
\* complete munged content at every point; after a normal end it holds the
\* munged content and the temporary file is gone; after an exception or an
\* interruption it holds the original content and the temporary file stays
\* in the directory with what had been written.
C27_CandidateNeverPartial ==
    /\ CandidateIsWhole
    /\ (MungeEnded /\ t_result.kind = "int") =>
           /\ cwd_files[submission.ft] = CompleteMunge.out
           /\ DOMAIN cwd_files = {submission.ft}
    /\ (MungeEnded /\ t_result.kind = "raise") =>
           /\ cwd_files[submission.ft] = submission.content
           /\ TmpName \in DOMAIN cwd_files

\* tag_ref raised after an entry had been written: the candidate is as it
\* was and the temporary file holds the lines printed before.
C27_Witness ==
    /\ MungeEnded
    /\ CompleteMunge.raised
    /\ cwd_files[submission.ft] = submission.content
    /\ TmpName \in DOMAIN cwd_files
    /\ \E n \in DOMAIN cwd_files[TmpName] :
           StartsWithAt(cwd_files[TmpName][n], 1, OpenMarker)

\* ---- the session state between items (SpecSession) ----

\* process_one has returned for the last record read.
ProcessOneReturned == n_inputs > 0

\* C28: after process_one returns, for any outcome including an exception
\* caught inside it, the session's current-item label is again "???" and
\* its failure reason is cleared, so that a reason recorded for one item is
\* never reported for, and never suppresses the reason of, a later item.
C28_SessionStateIsReset ==
    ProcessOneReturned =>
        /\ _current_item = "???"
        /\ _failure_reason = None

\* ---- compare_outcomes (SpecCompare) ----

\* compare_outcomes has visited every stem.
Compared == c_pc = "done"

AllStems == DOMAIN A_results \cup DOMAIN B_results

\* Every stem is in exactly one of the five groups.
EveryStemInOneGroup ==
    /\ failures \cap fixes = {}
    /\ failures \cap regressions = {}
    /\ fixes \cap regressions = {}
    /\ failures \cup fixes \cup regressions \subseteq AllStems
    /\ Cardinality(failures) + Cardinality(fixes) + Cardinality(regressions)
           + n_preserves + n_ignored_pdfs = Cardinality(AllStems)

\* Every stem is classified by its two target paths.
ClassifiedByPaths ==
    LET A(s) == get(A_results, s)[2]
        B(s) == get(B_results, s)[2]
    IN /\ failures = {s \in AllStems : A(s) = None /\ B(s) = None}
       /\ fixes = {s \in AllStems : A(s) = None /\ B(s) # None}
       /\ regressions = {s \in AllStems : A(s) # None /\ B(s) = None}
       /\ n_preserves = Cardinality({s \in AllStems : A(s) # None /\ B(s) # None})

\* C29: compare_outcomes puts every item stem of the two runs into exactly
\* one of the groups failed-in-both, fixed, regressed, preserved or
\* ignored-PDF-only, and an item is put into the ignored-PDF-only group only
\* when ignore_pdfonly is true; with ignore_pdfonly false every stem is
\* classified by its two target paths.
C29_PdfIgnoredOnlyOnRequest ==
    Compared =>
        /\ EveryStemInOneGroup
        /\ ~ignore_pdfonly => n_ignored_pdfs = 0 /\ ClassifiedByPaths

\* ---- resolve_batch (SpecResolve) ----

\* The request logged at index i is the last one sent for its batch.
LastOfBatch(i) == i = Len(requests_log) \/ requests_log[i + 1].attempt = 0

\* C30: resolve_batch sends at most 5 requests for one batch, sends another
\* request only after a 502 or 504 response, returns the resolved list on
\* the first successful response, raises immediately on any other error
\* status, and after five 502/504 responses raises the HTTP error (the
\* "unreachable" exception is never raised); every batch it is given holds
\* between 1 and 16 references.
C30_BoundedRetries ==
    /\ r_result # "unreachable"
    /\ \A i \in DOMAIN requests_log :
           LET q == requests_log[i] IN
           /\ q.attempt < 5
           /\ q.references \in 1..16
           /\ q.attempt > 0 =>
                  /\ i > 1
                  /\ requests_log[i - 1].attempt = q.attempt - 1
                  /\ requests_log[i - 1].response.status_code \in {502, 504}
           /\ q.response.status_code \in {502, 504} =>
                  IF q.attempt < 4
                  THEN \/ i < Len(requests_log) /\ requests_log[i + 1].attempt = q.attempt + 1
                       \/ /\ i = Len(requests_log)
                          /\ r_pc = "resolve_batch"
                          /\ _attempt = q.attempt + 1
                  ELSE i = Len(requests_log) /\ r_pc = "raised" /\ r_result = "HTTPError"
           /\ q.response.status_code \in {404, 500} =>
                  i = Len(requests_log) /\ r_pc = "raised" /\ r_result = "HTTPError"
           /\ q.response = [status_code |-> 200, content |-> "resolved"] =>
                  /\ LastOfBatch(i)
                  /\ i = Len(requests_log) => r_pc # "raised"
    /\ n_resolved =
           SumSeq([i \in DOMAIN requests_log |->
                      IF requests_log[i].response.content = "resolved"
                      THEN requests_log[i].references ELSE 0])

\* Two batches were sent: the first, of 16 references, was resolved at the
\* third request after a 502 and a 504; the second got five 502/504
\* responses and the HTTP error was raised.
C30_Witness ==
    /\ Len(requests_log) = 8
    /\ requests_log[1].references = 16
    /\ requests_log[1].response.status_code = 502
    /\ requests_log[2].response.status_code = 504
    /\ requests_log[3].response = [status_code |-> 200, content |-> "resolved"]
    /\ requests_log[4].references = 2
    /\ requests_log[8].attempt = 4
    /\ r_pc = "raised"
    /\ r_result = "HTTPError"
    /\ n_resolved = 16

====
